---- MODULE Spec2Model ----
(***************************************************************************)
(* Model of the SmartNode SDK endpoint groups (HbarSuite/smartnode-sdk).   *)
(*                                                                         *)
(* Every operation of every endpoint group is an async method of the form  *)
(*     try { const response = await this.client.axios.VERB(url, ...);      *)
(*           return response.data; }                                       *)
(*     catch (error) { this.logger.error(msg, error); throw error; }       *)
(* The state is the set of endpoint groups (base path + transport          *)
(* reference), the calls the caller has issued (with their position and    *)
(* result), the requests the transport has received (with the way the      *)
(* transport settled them) and the records written through logger.error.   *)
(***************************************************************************)
EXTENDS Naturals, Sequences, FiniteSets, TLC

(***************************************************************************)
(* Bounds of the model.                                                    *)
(***************************************************************************)
\* number of operation calls the caller issues in one behaviour
MaxCalls == 2

(***************************************************************************)
(* JavaScript values.  One record shape for all of them, so that any two   *)
(* values can be compared: t is the type tag, n the number (or 0/1 for a   *)
(* boolean), s the string (or the name of a caller-owned object or error), *)
(* e the own enumerable properties of an object, in insertion order.       *)
(***************************************************************************)
Undefined == [t |-> "undefined", n |-> 0, s |-> "", e |-> <<>>]

\* not a value: an argument that was not passed / a property that is missing
Absent == [t |-> "absent", n |-> 0, s |-> "", e |-> <<>>]

Num(k) == [t |-> "number", n |-> k, s |-> "", e |-> <<>>]

Str(x) == [t |-> "string", n |-> 0, s |-> x, e |-> <<>>]

Bool(b) == [t |-> "boolean", n |-> IF b THEN 1 ELSE 0, s |-> "", e |-> <<>>]

\* an object the caller (or the transport) owns, known by its name
Obj(name, props) == [t |-> "object", n |-> 0, s |-> name, e |-> props]

\* an object literal written in the SDK: a fresh anonymous object
ObjLit(props) == [t |-> "object", n |-> 0, s |-> "", e |-> props]

\* a URLSearchParams instance with its list of appended entries
SearchParams(props) == [t |-> "URLSearchParams", n |-> 0, s |-> "", e |-> props]

\* an error object, known by its name (its identity)
Err(name) == [t |-> "error", n |-> 0, s |-> name, e |-> <<>>]

\* null
Null == [t |-> "null", n |-> 0, s |-> "", e |-> <<>>]

\* an array literal: e holds its elements
Arr(elems) == [t |-> "array", n |-> 0, s |-> "", e |-> elems]

\* a function, known by its name
Fn(name) == [t |-> "function", n |-> 0, s |-> name, e |-> <<>>]

\* a class (a module, a provider token), known by its name
Class(name) == [t |-> "class", n |-> 0, s |-> name, e |-> <<>>]

\* not a value: the evaluation of an expression that threw error
Thrown(error) == [t |-> "thrown", n |-> 0, s |-> "", e |-> <<error>>]

IsThrown(v) == v.t = "thrown"

Prop(k, v) == [k |-> k, v |-> v]

Keys(o) == {o.e[i].k : i \in DOMAIN o.e}

HasKey(o, k) == k \in Keys(o)

\* o[k] / o.k : the value of property k, undefined when o has no such key
GetProp(o, k) ==
  IF HasKey(o, k)
    THEN (CHOOSE p \in {o.e[i] : i \in DOMAIN o.e} : p.k = k).v
    ELSE Undefined

\* String(v), as a template literal `${v}` and Number/Boolean toString compute it
ToStr(v) ==
  CASE v.t = "string" -> v.s
    [] v.t = "number" -> ToString(v.n)
    [] v.t = "boolean" -> (IF v.n = 1 THEN "true" ELSE "false")
    [] v.t = "undefined" -> "undefined"
    [] v.t = "null" -> "null"
    [] OTHER -> "[object Object]"

\* v.toString(): a property read on v, which throws a TypeError when v is
\* null or undefined
MethodToString(v) ==
  IF v.t \in {"null", "undefined"}
    THEN Thrown(Err("TypeError: Cannot read properties of " \o ToStr(v)
                    \o " (reading 'toString')"))
    ELSE Str(ToStr(v))

StartsWith(str, prefix) ==
  /\ Len(str) >= Len(prefix)
  /\ SubSeq(str, 1, Len(prefix)) = prefix

(***************************************************************************)
(* Inputs of the caller and outcomes of the transport.                     *)
(***************************************************************************)
\* strings that are no entity identifiers, which the operations accept all the
\* same (an identifier is typed string and is not validated): the empty
\* string and one with the characters / ? and #
OddIds == {Str(""), Str("a/b?c#d")}

\* a string that is also a fixed segment of the topic paths
SegmentWord == Str("messages")

AccountIds == {Str("0.0.1001"), Str("0.0.9999")} \cup OddIds

TokenIds == {Str("0.0.500"), Str("0.0.501")} \cup OddIds

TopicIds == {Str("0.0.2000"), Str("0.0.2001"), SegmentWord} \cup OddIds

TransactionIds == {Str("0.0.1001-1700000000-000000001"), Str("schedules")} \cup OddIds

ScheduleIds == {Str("0.0.3000"), Str("stateproof")} \cup OddIds

PathTimestamps == {Str("1700000000.000000001"), SegmentWord} \cup OddIds

SerialNumbers == {Num(1)}

SequenceNumbers == {Num(7)}

\* payload objects of mutating operations
Payload == Obj("payload", <<Prop("message", Str("hi"))>>)

Payloads == {Payload, Obj("other payload", <<>>)}

\* optional positional arguments: left undefined, or supplied
OptLimit == {Undefined, Num(10)}

OptOrder == {Undefined, Str("desc")}

OptTimestamp == {Undefined, Str("gte:1700000000")}

OptToken == {Undefined, Str("0.0.500")}

OptAccountId == {Undefined, Str("0.0.1001")}

OptAccountBalance == {Undefined, Num(0)}

OptAccountPublicKey == {Undefined, Str("302a300506032b6570")}

OptSerialNumber == {Undefined, Num(1)}

OptSequenceNumber == {Undefined, Num(7)}

OptEncoding == {Undefined, Str("base64")}

OptTransactionType == {Undefined, Str("CRYPTOTRANSFER")}

OptTransactions == {Undefined, Bool(FALSE)}

OptNonce == {Undefined, Num(0), Num(1)}

OptScheduled == {Undefined, Bool(FALSE), Bool(TRUE)}

\* filter objects the caller builds for getTransactions / getMessages
EmptyFilter == Obj("filter", <<>>)

Filters ==
  { EmptyFilter,
    Obj("filter", <<Prop("limit", Num(10)), Prop("order", Str("desc"))>>) }

\* filter objects for getTransactions, whose parameter type has result and type
TransactionFilters ==
  Filters \cup {Obj("filter", <<Prop("result", Str("success")), Prop("type", Str("credit"))>>)}

\* decoded response bodies the transport may deliver
Bodies == {Undefined, Obj("body", <<Prop("ok", Bool(TRUE))>>)}

\* failures the transport may raise
Errors == {Err("not found"), Err("network error")}

(***************************************************************************)
(* State.                                                                  *)
(***************************************************************************)
VARIABLES
  caller,    \* the caller of the SDK: issues "one call" or "several calls"
  nest,      \* the Nest application context the SDK module is initialised in
  facade,    \* SmartNodeSdkService: its injected fields [sdkOptions, client]
  groups,    \* endpoint group -> [sdkOptions, client, basePath]: the group's fields
  calls,     \* the calls issued so far: [op, args, msg, pc, result]
  requests,  \* what the transport received: [call, verb, url, data, config, state, outcome]
  errlog     \* the records written with logger.error: [call, msg, error]

vars == <<caller, nest, facade, groups, calls, requests, errlog>>

GroupNames ==
  {"smart-node", "validators", "accounts", "transactions", "hcs", "hts"}

\* BaseRestful: constructor(client, basePath)
BaseRestful(client, basePath) == [client |-> client, basePath |-> basePath]

\* the constructors of the six groups: the parameter property sdkOptions
\* becomes a field, and super(client, '<base path>') sets the other two
SmartNodeRestful(sdkOptions, client) ==
  [sdkOptions |-> sdkOptions] @@ BaseRestful(client, "smart-node")

ValidatorsRestful(sdkOptions, client) ==
  [sdkOptions |-> sdkOptions] @@ BaseRestful(client, "validators")

AccountsHashgraphRestful(sdkOptions, client) ==
  [sdkOptions |-> sdkOptions] @@ BaseRestful(client, "accounts")

TransactionsHashgraphRestful(sdkOptions, client) ==
  [sdkOptions |-> sdkOptions] @@ BaseRestful(client, "transactions")

\* a variant of the HcsHashgraphRestful constructor with the base path of
\* another group: super(client, 'hts')
HcsHashgraphRestful_HtsPath(sdkOptions, client) ==
  [sdkOptions |-> sdkOptions] @@ BaseRestful(client, "hts")

HcsHashgraphRestful(sdkOptions, client) ==
  [sdkOptions |-> sdkOptions] @@ BaseRestful(client, "hcs")

HtsHashgraphRestful(sdkOptions, client) ==
  [sdkOptions |-> sdkOptions] @@ BaseRestful(client, "hts")

\* SmartNodeSdkService: constructor(sdkOptions, client) builds the six groups
SmartNodeSdkService(sdkOptions, client) ==
  [g \in GroupNames |->
     CASE g = "smart-node" -> SmartNodeRestful(sdkOptions, client)
       [] g = "validators" -> ValidatorsRestful(sdkOptions, client)
       [] g = "accounts" -> AccountsHashgraphRestful(sdkOptions, client)
       [] g = "transactions" -> TransactionsHashgraphRestful(sdkOptions, client)
       [] g = "hcs" -> HcsHashgraphRestful(sdkOptions, client)
       [] g = "hts" -> HtsHashgraphRestful(sdkOptions, client)]

(***************************************************************************)
(* Module initialisation.  SmartNodeSdkModule.forRootAsync(options) builds *)
(* a dynamic module; the Nest application context then evaluates the       *)
(* factory providers and instantiates SmartNodeSdkService.  nest is that   *)
(* context:                                                                *)
(*   phase        "idle", "configured", "ready" or "failed"                *)
(*   options      the object forRootAsync was called with                  *)
(*   tokens       the provider tokens the module context can resolve       *)
(*   clientModule the options handed to ClientModule.forRootAsync          *)
(*   provider     the provider registered under 'sdkOptions'               *)
(*   definition   the dynamic module forRootAsync resolved to              *)
(*   evaluations  the calls of options.useFactory: [by, args, result]      *)
(*   clientConfig the client configuration the transport was given         *)
(*   sdkOptions   the value of the 'sdkOptions' provider                   *)
(*   client       the ClientService instance                               *)
(*   instances    the classes of the SDK instantiated so far               *)
(*   error        the error that ended the initialisation                  *)
(***************************************************************************)
ConfigModule == Class("ConfigModule")

ConfigService == Class("ConfigService")

SdkOptionsFactory == Class("SdkOptionsFactory")

\* useFactory: () => ({ client: { ... } })
ConstantFactory == Fn("() => ({ client })")

\* useFactory: (configService) => ({ client: configService.get('client') })
ConfigFactory == Fn("(configService) => ({ client: configService.get('client') })")

\* the three documented patterns: an existing factory, a factory class, a
\* factory function (two of them)
Patterns ==
  { [useExisting |-> Arr(<<SdkOptionsFactory>>), useClass |-> Undefined,
     useFactory |-> Undefined],
    [useExisting |-> Undefined, useClass |-> SdkOptionsFactory,
     useFactory |-> Undefined],
    [useExisting |-> Undefined, useClass |-> Undefined,
     useFactory |-> ConstantFactory],
    [useExisting |-> Undefined, useClass |-> Undefined,
     useFactory |-> ConfigFactory] }

OptImports == {Undefined, Arr(<<ConfigModule>>)}

OptInject == {Undefined, Arr(<<ConfigService>>)}

\* the SmartNodeSdkModuleAsyncOptions objects forRootAsync is called with
AsyncOptions ==
  { ObjLit(<<Prop("imports", imports), Prop("useExisting", p.useExisting),
             Prop("useClass", p.useClass), Prop("useFactory", p.useFactory),
             Prop("inject", inject)>>) :
      imports \in OptImports, p \in Patterns, inject \in OptInject }

\* the options of the module integration example: imports: [ConfigModule],
\* useFactory, inject: [ConfigService]
ExampleOptions ==
  ObjLit(<<Prop("imports", Arr(<<ConfigModule>>)), Prop("useExisting", Undefined),
           Prop("useClass", Undefined), Prop("useFactory", ConstantFactory),
           Prop("inject", Arr(<<ConfigService>>))>>)

\* the object the k-th evaluation of the options factory returns: a fresh
\* object literal { client: { ... } }; n is the evaluation that made it
ClientOptions(k) ==
  [t |-> "object", n |-> k, s |-> "client options",
   e |-> <<Prop("baseUrl", Str("https://smartnode.example"))>>]

SdkOptions(k) ==
  [t |-> "object", n |-> k, s |-> "sdk options",
   e |-> <<Prop("client", ClientOptions(k))>>]

\* f(...args): the k-th call of the options factory
CallFactory(f, args, k) ==
  CASE f = Undefined ->
         Thrown(Err("TypeError: options.useFactory is not a function"))
    [] f = ConfigFactory /\ Len(args.e) = 0 ->
         Thrown(Err("TypeError: Cannot read properties of undefined (reading 'get')"))
    [] OTHER -> SdkOptions(k)

\* the instance the context resolves a provider token to
Instance(token) == Obj(token.s, <<>>)

\* the arguments a factory provider is called with: the instances of the
\* tokens of its inject list, none when the list is undefined
Injected(inject) ==
  IF inject = Undefined
    THEN Arr(<<>>)
    ELSE Arr([i \in DOMAIN inject.e |-> Instance(inject.e[i])])

\* new ClientService(config)
ClientService(config) == Obj("ClientService", <<Prop("options", config)>>)

Idle ==
  [phase |-> "idle", options |-> Absent, tokens |-> {}, clientModule |-> Absent,
   provider |-> Absent, definition |-> Absent, evaluations |-> <<>>, clientConfig |-> Absent,
   sdkOptions |-> Absent, client |-> Absent, instances |-> <<>>, error |-> Absent]

\* the fields of a SmartNodeSdkService that has not been constructed
NotConstructed == [sdkOptions |-> Absent, client |-> Absent]

\* the options object forRootAsync hands to ClientModule.forRootAsync
ClientModuleOptions(options) ==
  ObjLit(<<Prop("imports", GetProp(options, "imports")),
           Prop("useExisting", GetProp(options, "useExisting")),
           Prop("useFactory", Fn("wrapper")),
           Prop("inject", GetProp(options, "inject"))>>)

\* { provide: 'sdkOptions', useFactory: options.useFactory,
\*   inject: options.useExisting }
SdkOptionsProvider(options) ==
  ObjLit(<<Prop("provide", Str("sdkOptions")),
           Prop("useFactory", GetProp(options, "useFactory")),
           Prop("inject", GetProp(options, "useExisting"))>>)

\* the object literal forRootAsync returns, for options whose imports can be
\* spread
DynamicModule(options) ==
  ObjLit(<<Prop("module", Class("SmartNodeSdkModule")),
           Prop("imports", Arr(GetProp(options, "imports").e
                               \o <<Obj("ClientModule", ClientModuleOptions(options).e)>>)),
           Prop("providers", Arr(<<SdkOptionsProvider(options),
                                   Class("SmartNodeSdkService")>>)),
           Prop("exports", Arr(<<Class("SmartNodeSdkService")>>)),
           Prop("global", Bool(TRUE))>>)

\* SmartNodeSdkModule.forRootAsync(options).  The spread of options.imports
\* throws when imports is undefined; otherwise the dynamic module is returned:
\* ClientModule.forRootAsync gets a wrapper around options.useFactory with
\* options.inject, and the provider 'sdkOptions' gets options.useFactory
\* itself with options.useExisting as its inject list.
forRootAsync(options) ==
  /\ nest.phase = "idle"
  /\ nest' =
       IF GetProp(options, "imports") = Undefined
         THEN [nest EXCEPT !.phase = "failed", !.options = options,
                 !.error = Err("TypeError: options.imports is not iterable")]
         ELSE [nest EXCEPT !.phase = "configured", !.options = options,
                 !.tokens = {"sdkOptions", "SmartNodeSdkService", "ClientService"},
                 !.clientModule = ClientModuleOptions(options),
                 !.provider = SdkOptionsProvider(options),
                 !.definition = DynamicModule(options)]
  /\ UNCHANGED <<caller, facade, groups, calls, requests, errlog>>

\* Test.createTestingModule({ providers: [SmartNodeSdkService] }): a module
\* context whose only provider is the service
createTestingModule ==
  /\ nest.phase = "idle"
  /\ nest' = [nest EXCEPT !.phase = "configured", !.tokens = {"SmartNodeSdkService"}]
  /\ UNCHANGED <<caller, facade, groups, calls, requests, errlog>>

\* the context evaluates the factory ClientModule was given, the wrapper
\*   async (...args) => { const sdkOptions = await options.useFactory(...args);
\*                        return sdkOptions.client; }
\* with the instances of its inject list, and creates the client from the
\* returned configuration
ResolveClient ==
  /\ nest.phase = "configured"
  /\ "ClientService" \in nest.tokens
  /\ nest.client = Absent
  /\ LET args == Injected(GetProp(nest.clientModule, "inject"))
         sdkOptions == CallFactory(GetProp(nest.options, "useFactory"), args,
                                   Len(nest.evaluations) + 1)
     IN nest' =
          IF IsThrown(sdkOptions)
            THEN [nest EXCEPT !.phase = "failed", !.error = sdkOptions.e[1]]
            ELSE [nest EXCEPT
                    !.evaluations = Append(@, [by |-> "ClientModule", args |-> args,
                                               result |-> sdkOptions]),
                    !.clientConfig = GetProp(sdkOptions, "client"),
                    !.client = ClientService(GetProp(sdkOptions, "client"))]
  /\ UNCHANGED <<caller, facade, groups, calls, requests, errlog>>

\* the context evaluates the provider 'sdkOptions': its useFactory, called
\* with the instances of its inject list.  A provider object whose useFactory
\* is undefined provides nothing, and the parameter @Inject('sdkOptions') of
\* the service cannot be resolved.
ResolveSdkOptions ==
  /\ nest.phase = "configured"
  /\ "sdkOptions" \in nest.tokens
  /\ nest.sdkOptions = Absent
  /\ LET args == Injected(GetProp(nest.provider, "inject"))
         value == CallFactory(GetProp(nest.provider, "useFactory"), args,
                              Len(nest.evaluations) + 1)
     IN nest' =
          CASE GetProp(nest.provider, "useFactory") = Undefined ->
                 [nest EXCEPT !.phase = "failed",
                    !.error = Err("Nest can't resolve dependencies of the "
                                  \o "SmartNodeSdkService (?, ClientService)")]
            [] IsThrown(value) ->
                 [nest EXCEPT !.phase = "failed", !.error = value.e[1]]
            [] OTHER ->
                 [nest EXCEPT
                    !.evaluations = Append(@, [by |-> "sdkOptions", args |-> args,
                                               result |-> value]),
                    !.sdkOptions = value]
  /\ UNCHANGED <<caller, facade, groups, calls, requests, errlog>>

\* the context instantiates SmartNodeSdkService: it resolves the constructor
\* parameters @Inject('sdkOptions') and ClientService, which fails when the
\* context has no provider for one of them, and runs the constructor, which
\* creates the six groups
InstantiateService ==
  /\ nest.phase = "configured"
  /\ IF {"sdkOptions", "ClientService"} \subseteq nest.tokens
       THEN /\ nest.sdkOptions # Absent
            /\ nest.client # Absent
            /\ nest' = [nest EXCEPT !.phase = "ready",
                          !.instances = @ \o <<"SmartNodeSdkService", "SmartNodeRestful",
                             "ValidatorsRestful", "AccountsHashgraphRestful",
                             "TransactionsHashgraphRestful", "HcsHashgraphRestful",
                             "HtsHashgraphRestful">>]
            /\ facade' = [sdkOptions |-> nest.sdkOptions, client |-> nest.client]
            /\ groups' = SmartNodeSdkService(nest.sdkOptions, nest.client)
       ELSE /\ nest' = [nest EXCEPT !.phase = "failed",
                          !.error = Err("Nest can't resolve dependencies of the "
                                        \o "SmartNodeSdkService (?, ClientService)")]
            /\ UNCHANGED <<facade, groups>>
  /\ UNCHANGED <<caller, calls, requests, errlog>>

\* the context after the module of the integration example has been
\* initialised, the client first
Bootstrapped ==
  [phase |-> "ready", options |-> ExampleOptions,
   tokens |-> {"sdkOptions", "SmartNodeSdkService", "ClientService"},
   clientModule |->
     ObjLit(<<Prop("imports", Arr(<<ConfigModule>>)), Prop("useExisting", Undefined),
              Prop("useFactory", Fn("wrapper")),
              Prop("inject", Arr(<<ConfigService>>))>>),
   provider |->
     ObjLit(<<Prop("provide", Str("sdkOptions")), Prop("useFactory", ConstantFactory),
              Prop("inject", Undefined)>>),
   definition |-> DynamicModule(ExampleOptions),
   evaluations |->
     <<[by |-> "ClientModule", args |-> Arr(<<Instance(ConfigService)>>),
        result |-> SdkOptions(1)],
       [by |-> "sdkOptions", args |-> Arr(<<>>), result |-> SdkOptions(2)]>>,
   clientConfig |-> ClientOptions(1), sdkOptions |-> SdkOptions(2),
   client |-> ClientService(ClientOptions(1)),
   instances |-> <<"SmartNodeSdkService", "SmartNodeRestful", "ValidatorsRestful",
                   "AccountsHashgraphRestful", "TransactionsHashgraphRestful",
                   "HcsHashgraphRestful", "HtsHashgraphRestful">>,
   error |-> Absent]

\* the state after the facade has been constructed; the caller issues up to
\* MaxCalls calls, in flight together, with plain arguments
Init ==
  /\ caller = "several calls"
  /\ nest = Bootstrapped
  /\ facade = [sdkOptions |-> nest.sdkOptions, client |-> nest.client]
  /\ groups = SmartNodeSdkService(facade.sdkOptions, facade.client)
  /\ calls = <<>>
  /\ requests = <<>>
  /\ errlog = <<>>

\* the same state; the caller issues one call, with any arguments
InitCall ==
  /\ caller = "one call"
  /\ nest = Bootstrapped
  /\ facade = [sdkOptions |-> nest.sdkOptions, client |-> nest.client]
  /\ groups = SmartNodeSdkService(facade.sdkOptions, facade.client)
  /\ calls = <<>>
  /\ requests = <<>>
  /\ errlog = <<>>

\* the same state; the caller issues one call and does not keep to the
\* declared parameter types: it may pass null for an optional argument
InitUntyped ==
  /\ caller = "one untyped call"
  /\ nest = Bootstrapped
  /\ facade = [sdkOptions |-> nest.sdkOptions, client |-> nest.client]
  /\ groups = SmartNodeSdkService(facade.sdkOptions, facade.client)
  /\ calls = <<>>
  /\ requests = <<>>
  /\ errlog = <<>>

\* the state before the module is initialised; once the facade is
\* constructed the caller issues one call
InitModule ==
  /\ caller = "one call"
  /\ nest = Idle
  /\ facade = NotConstructed
  /\ groups = [g \in GroupNames |-> Undefined]
  /\ calls = <<>>
  /\ requests = <<>>
  /\ errlog = <<>>

\* the values an argument is drawn from: the whole set S for the caller of
\* one call, the plain value d for the caller of several calls
Drawn(S, d) == IF caller = "several calls" THEN {d} ELSE S

\* the values an optional argument is drawn from: null as well for the
\* caller that does not keep to the declared types
DrawnOptional(S, d) ==
  IF caller = "one untyped call" THEN S \cup {Null} ELSE Drawn(S, d)

\* the number of calls the caller issues
CallBudget == IF caller = "several calls" THEN MaxCalls ELSE 1

(***************************************************************************)
(* The transport: client.axios.get/post/put/patch/delete.  A request is    *)
(* what the method was called with: the url, the second positional         *)
(* argument of post/put/patch (data) and the config object of get/delete.  *)
(***************************************************************************)
AxiosGet(url, config) ==
  [t |-> "request", verb |-> "GET", url |-> url, data |-> Absent, config |-> config]

AxiosDelete(url, config) ==
  [t |-> "request", verb |-> "DELETE", url |-> url, data |-> Absent, config |-> config]

AxiosPost(url, data) ==
  [t |-> "request", verb |-> "POST", url |-> url, data |-> data, config |-> Absent]

AxiosPut(url, data) ==
  [t |-> "request", verb |-> "PUT", url |-> url, data |-> data, config |-> Absent]

AxiosPatch(url, data) ==
  [t |-> "request", verb |-> "PATCH", url |-> url, data |-> data, config |-> Absent]

\* the requests the transport received for call c
RequestsOf(c) == {i \in DOMAIN requests : requests[i].call = c}

\* an operation of an endpoint group, called with args: the request its try
\* block hands to the transport and the message its catch block logs
Operation(op, args, msg, req) == [op |-> op, args |-> args, msg |-> msg, req |-> req]

\* a variant of Invoke that answers a repeated read from a cache: a call
\* whose operation and arguments equal those of an earlier resolved call
\* issues no request and resolves with the earlier result
Invoke_Cached(o) ==
  /\ nest.phase = "ready"
  /\ Len(calls) < CallBudget
  /\ LET hits == {c \in DOMAIN calls :
                    /\ calls[c].op = o.op
                    /\ calls[c].args = o.args
                    /\ calls[c].pc = "resolved"}
     IN IF hits # {}
          THEN /\ calls' = Append(calls,
                    [op |-> o.op, args |-> o.args, msg |-> o.msg, pc |-> "resolved",
                     result |-> calls[CHOOSE c \in hits : TRUE].result])
               /\ requests' = requests
          ELSE /\ calls' = Append(calls,
                    [op |-> o.op, args |-> o.args, msg |-> o.msg, pc |-> "await",
                     result |-> Absent])
               /\ requests' = Append(requests,
                    [call |-> Len(calls) + 1, verb |-> o.req.verb, url |-> o.req.url,
                     data |-> o.req.data, config |-> o.req.config,
                     state |-> "pending", outcome |-> Absent])
  /\ UNCHANGED <<caller, nest, facade, groups, errlog>>

\* the caller calls operation o of the constructed facade.  The async method
\* runs its try block up to the await: the request is handed to the
\* transport, and the call waits for the transport's promise.  When building
\* the request throws, no request is made: the catch block logs the error
\* and throws it, and the call is rejected.
Invoke(o) ==
  /\ nest.phase = "ready"
  /\ Len(calls) < CallBudget
  /\ IF IsThrown(o.req)
       THEN /\ calls' = Append(calls,
                 [op |-> o.op, args |-> o.args, msg |-> o.msg, pc |-> "rejected",
                  result |-> o.req.e[1]])
            /\ errlog' = Append(errlog,
                 [call |-> Len(calls) + 1, msg |-> o.msg, error |-> o.req.e[1]])
            /\ requests' = requests
       ELSE /\ calls' = Append(calls,
                 [op |-> o.op, args |-> o.args, msg |-> o.msg, pc |-> "await",
                  result |-> Absent])
            /\ requests' = Append(requests,
                 [call |-> Len(calls) + 1, verb |-> o.req.verb, url |-> o.req.url,
                  data |-> o.req.data, config |-> o.req.config,
                  state |-> "pending", outcome |-> Absent])
            /\ errlog' = errlog
  /\ UNCHANGED <<caller, nest, facade, groups>>

\* the transport fulfils a pending request with a response { data: d }
TransportFulfil ==
  \E i \in DOMAIN requests, d \in Bodies :
    /\ requests[i].state = "pending"
    /\ requests' = [requests EXCEPT ![i].state = "fulfilled",
                      ![i].outcome = Obj("response", <<Prop("data", d)>>)]
    /\ UNCHANGED <<caller, nest, facade, groups, calls, errlog>>

\* the transport rejects a pending request with an error
TransportReject ==
  \E i \in DOMAIN requests, e \in Errors :
    /\ requests[i].state = "pending"
    /\ requests' = [requests EXCEPT ![i].state = "rejected", ![i].outcome = e]
    /\ UNCHANGED <<caller, nest, facade, groups, calls, errlog>>

\* the request call c is awaiting
Awaited(c) == CHOOSE i \in DOMAIN requests : requests[i].call = c

\* a variant of Return in which the response is kept in a field shared by the
\* calls: a call whose request was fulfilled returns the body of whichever
\* response was stored, its own or that of another call
Return_SharedResponse ==
  \E c \in DOMAIN calls, i \in DOMAIN requests :
    /\ calls[c].pc = "await"
    /\ RequestsOf(c) # {}
    /\ requests[Awaited(c)].state = "fulfilled"
    /\ requests[i].state = "fulfilled"
    /\ calls' = [calls EXCEPT ![c].pc = "resolved",
                   ![c].result = GetProp(requests[i].outcome, "data")]
    /\ UNCHANGED <<caller, nest, facade, groups, requests, errlog>>

\* a variant of Return that keeps the last body on the options object,
\* this.sdkOptions.last = response.data: the object is shared by the context,
\* the facade and the six groups, and all of them see the new property
Return_KeepsLastBody ==
  \E c \in DOMAIN calls :
    /\ calls[c].pc = "await"
    /\ RequestsOf(c) # {}
    /\ requests[Awaited(c)].state = "fulfilled"
    /\ calls' = [calls EXCEPT ![c].pc = "resolved",
                   ![c].result = GetProp(requests[Awaited(c)].outcome, "data")]
    /\ LET changed ==
             [facade.sdkOptions EXCEPT
                !.e = <<Prop("client", GetProp(facade.sdkOptions, "client")),
                        Prop("last", GetProp(requests[Awaited(c)].outcome, "data"))>>]
       IN /\ facade' = [facade EXCEPT !.sdkOptions = changed]
          /\ groups' = [g \in GroupNames |-> [groups[g] EXCEPT !.sdkOptions = changed]]
          /\ nest' = [nest EXCEPT !.sdkOptions = changed]
    /\ UNCHANGED <<caller, requests, errlog>>

\* a variant of Return that replaces a missing body: return response.data ?? {}
Return_Defaulted ==
  \E c \in DOMAIN calls :
    /\ calls[c].pc = "await"
    /\ RequestsOf(c) # {}
    /\ requests[Awaited(c)].state = "fulfilled"
    /\ calls' = [calls EXCEPT ![c].pc = "resolved",
                   ![c].result =
                     IF GetProp(requests[Awaited(c)].outcome, "data") = Undefined
                       THEN ObjLit(<<>>)
                       ELSE GetProp(requests[Awaited(c)].outcome, "data")]
    /\ UNCHANGED <<caller, nest, facade, groups, requests, errlog>>

\* after the await, on fulfilment: return response.data
Return ==
  \E c \in DOMAIN calls :
    /\ calls[c].pc = "await"
    /\ RequestsOf(c) # {}
    /\ requests[Awaited(c)].state = "fulfilled"
    /\ calls' = [calls EXCEPT ![c].pc = "resolved",
                   ![c].result = GetProp(requests[Awaited(c)].outcome, "data")]
    /\ UNCHANGED <<caller, nest, facade, groups, requests, errlog>>

\* a variant of Catch that throws a wrapper: throw new Error(msg, { cause: error })
Catch_Wrapped ==
  \E c \in DOMAIN calls :
    /\ calls[c].pc = "await"
    /\ RequestsOf(c) # {}
    /\ requests[Awaited(c)].state = "rejected"
    /\ errlog' = Append(errlog,
         [call |-> c, msg |-> calls[c].msg, error |-> requests[Awaited(c)].outcome])
    /\ calls' = [calls EXCEPT ![c].pc = "rejected",
                   ![c].result =
                     [t |-> "error", n |-> 0, s |-> calls[c].msg,
                      e |-> <<Prop("cause", requests[Awaited(c)].outcome)>>]]
    /\ UNCHANGED <<caller, nest, facade, groups, requests>>

\* a variant of Catch that retries once: on the first failure the request is
\* issued again and the call keeps waiting
Catch_Retry ==
  \E c \in DOMAIN calls :
    /\ calls[c].pc = "await"
    /\ RequestsOf(c) # {}
    /\ \A i \in RequestsOf(c) : requests[i].state = "rejected"
    /\ errlog' = Append(errlog,
         [call |-> c, msg |-> calls[c].msg, error |-> requests[Awaited(c)].outcome])
    /\ IF Cardinality(RequestsOf(c)) = 1
         THEN /\ requests' = Append(requests,
                   [requests[Awaited(c)] EXCEPT !.state = "pending", !.outcome = Absent])
              /\ calls' = calls
         ELSE /\ requests' = requests
              /\ calls' = [calls EXCEPT ![c].pc = "rejected",
                             ![c].result = requests[Awaited(c)].outcome]
    /\ UNCHANGED <<caller, nest, facade, groups>>

\* a variant of Catch that does not log: catch (error) { throw error; }
Catch_Silent ==
  \E c \in DOMAIN calls :
    /\ calls[c].pc = "await"
    /\ RequestsOf(c) # {}
    /\ requests[Awaited(c)].state = "rejected"
    /\ calls' = [calls EXCEPT ![c].pc = "rejected",
                   ![c].result = requests[Awaited(c)].outcome]
    /\ UNCHANGED <<caller, nest, facade, groups, requests, errlog>>

\* a variant of Catch with a timeout of the SDK's own: a call whose request
\* is still pending may give up, log and reject with a timeout error
Catch_OrTimeout ==
  \E c \in DOMAIN calls :
    /\ calls[c].pc = "await"
    /\ RequestsOf(c) # {}
    /\ requests[Awaited(c)].state \in {"rejected", "pending"}
    /\ LET error == IF requests[Awaited(c)].state = "rejected"
                      THEN requests[Awaited(c)].outcome
                      ELSE Err("timeout")
       IN /\ errlog' = Append(errlog, [call |-> c, msg |-> calls[c].msg, error |-> error])
          /\ calls' = [calls EXCEPT ![c].pc = "rejected", ![c].result = error]
    /\ UNCHANGED <<caller, nest, facade, groups, requests>>

\* after the await, on rejection: catch (error) { logger.error(msg, error); throw error; }
Catch ==
  \E c \in DOMAIN calls :
    /\ calls[c].pc = "await"
    /\ RequestsOf(c) # {}
    /\ requests[Awaited(c)].state = "rejected"
    /\ errlog' = Append(errlog,
         [call |-> c, msg |-> calls[c].msg, error |-> requests[Awaited(c)].outcome])
    /\ calls' = [calls EXCEPT ![c].pc = "rejected",
                   ![c].result = requests[Awaited(c)].outcome]
    /\ UNCHANGED <<caller, nest, facade, groups, requests>>

(***************************************************************************)
(* SmartNodeRestful (base path smart-node).                                *)
(***************************************************************************)
getIdentifier ==
  Operation("getIdentifier", <<>>,
            "Error getting identifier",
            AxiosGet(groups["smart-node"].basePath \o "/identifier",
                     Absent))

\* a variant of getStatus that numbers its requests in a query parameter
getStatus_Numbered ==
  Operation("getStatus", <<>>,
            "Error getting status",
            AxiosGet(groups["smart-node"].basePath \o "/status",
                     ObjLit(<<Prop("params",
                       ObjLit(<<Prop("n", Num(Len(requests)))>>))>>)))

getStatus ==
  Operation("getStatus", <<>>,
            "Error getting status",
            AxiosGet(groups["smart-node"].basePath \o "/status",
                     Absent))

getNetwork ==
  Operation("getNetwork", <<>>,
            "Error getting network",
            AxiosGet(groups["smart-node"].basePath \o "/network",
                     Absent))

getUtilities ==
  Operation("getUtilities", <<>>,
            "Error getting utilities",
            AxiosGet(groups["smart-node"].basePath \o "/utilities",
                     Absent))

(***************************************************************************)
(* ValidatorsRestful (base path validators).                               *)
(***************************************************************************)
addConsensusValidator(validationParams) ==
  Operation("addConsensusValidator", <<validationParams>>,
            "Error adding consensus validator",
            AxiosPost(groups["validators"].basePath \o "/consensus",
                     validationParams))

readConsensusValidator(timestamp) ==
  Operation("readConsensusValidator", <<timestamp>>,
            "Error reading consensus validator",
            AxiosGet(groups["validators"].basePath \o "/consensus/" \o ToStr(timestamp),
                     Absent))

addTokenValidator(validationParams) ==
  Operation("addTokenValidator", <<validationParams>>,
            "Error adding token validator",
            AxiosPost(groups["validators"].basePath \o "/tokens",
                     validationParams))

\* a variant of readTokenValidator that reads through the mirror paths
readTokenValidator_Mirror(timestamp) ==
  Operation("readTokenValidator", <<timestamp>>,
            "Error reading token validator",
            AxiosGet("mirrors/" \o groups["validators"].basePath \o "/tokens/"
                     \o ToStr(timestamp),
                     Absent))

readTokenValidator(timestamp) ==
  Operation("readTokenValidator", <<timestamp>>,
            "Error reading token validator",
            AxiosGet(groups["validators"].basePath \o "/tokens/" \o ToStr(timestamp),
                     Absent))

addAccountValidator(validationParams) ==
  Operation("addAccountValidator", <<validationParams>>,
            "Error adding account validator",
            AxiosPost(groups["validators"].basePath \o "/accounts",
                     validationParams))

readAccountValidator(timestamp) ==
  Operation("readAccountValidator", <<timestamp>>,
            "Error reading account validator",
            AxiosGet(groups["validators"].basePath \o "/accounts/" \o ToStr(timestamp),
                     Absent))

(***************************************************************************)
(* AccountsHashgraphRestful (base path accounts).                          *)
(***************************************************************************)
getInfo(accountId) ==
  Operation("getInfo", <<accountId>>,
            "Error getting account info",
            AxiosGet(groups["accounts"].basePath \o "/" \o ToStr(accountId),
                     Absent))

\* encodeURIComponent(str) on the characters / ? and #
RECURSIVE EncodeURIComponent(_)
EncodeURIComponent(str) ==
  IF Len(str) = 0
    THEN ""
    ELSE LET ch == SubSeq(str, 1, 1)
         IN (CASE ch = "/" -> "%2F"
               [] ch = "?" -> "%3F"
               [] ch = "#" -> "%23"
               [] OTHER -> ch) \o EncodeURIComponent(SubSeq(str, 2, Len(str)))

\* a variant of getKeys that encodes the identifier:
\* `${this.basePath}/${encodeURIComponent(accountId)}/publicKey`
getKeys_Encoded(accountId) ==
  Operation("getKeys", <<accountId>>,
            "Error getting account keys",
            AxiosGet(groups["accounts"].basePath \o "/"
                     \o EncodeURIComponent(ToStr(accountId)) \o "/publicKey",
                     Absent))

getKeys(accountId) ==
  Operation("getKeys", <<accountId>>,
            "Error getting account keys",
            AxiosGet(groups["accounts"].basePath \o "/" \o ToStr(accountId)
                     \o "/publicKey",
                     Absent))

\* a variant of getQueryBalance with the path segment of another resource
getQueryBalance_Balances(accountId) ==
  Operation("getQueryBalance", <<accountId>>,
            "Error getting account balance",
            AxiosGet(groups["accounts"].basePath \o "/" \o ToStr(accountId) \o "/balances",
                     Absent))

getQueryBalance(accountId) ==
  Operation("getQueryBalance", <<accountId>>,
            "Error getting account balance",
            AxiosGet(groups["accounts"].basePath \o "/" \o ToStr(accountId)
                     \o "/balance",
                     Absent))

createAccount(params) ==
  Operation("createAccount", <<params>>,
            "Error creating account",
            AxiosPost(groups["accounts"].basePath,
                     params))

deleteAccount(accountId, params) ==
  Operation("deleteAccount", <<accountId, params>>,
            "Error deleting account",
            AxiosDelete(groups["accounts"].basePath \o "/" \o ToStr(accountId),
                     ObjLit(<<Prop("data", params)>>)))

updateAccount(accountId, params) ==
  Operation("updateAccount", <<accountId, params>>,
            "Error updating account",
            AxiosPut(groups["accounts"].basePath \o "/" \o ToStr(accountId),
                     params))

transferHbar(params) ==
  Operation("transferHbar", <<params>>,
            "Error transferring HBAR",
            AxiosPost(groups["accounts"].basePath \o "/transfer/hbar",
                     params))

transferToken(params) ==
  Operation("transferToken", <<params>>,
            "Error transferring token",
            AxiosPost(groups["accounts"].basePath \o "/transfer/token",
                     params))

transferNftToken(params) ==
  Operation("transferNftToken", <<params>>,
            "Error transferring NFT",
            AxiosPost(groups["accounts"].basePath \o "/transfer/nft",
                     params))

atomicSwap(params) ==
  Operation("atomicSwap", <<params>>,
            "Error performing atomic swap",
            AxiosPost(groups["accounts"].basePath \o "/transfer/atomic-swap",
                     params))

approveAllowance(params) ==
  Operation("approveAllowance", <<params>>,
            "Error approving allowance",
            AxiosPost(groups["accounts"].basePath \o "/allowance/approve",
                     params))

deleteAllowance(params) ==
  Operation("deleteAllowance", <<params>>,
            "Error deleting allowance",
            AxiosPost(groups["accounts"].basePath \o "/allowance/delete",
                     params))

getRestfulInfo(accountId, limit, order, timestamp, transactionType, transactions) ==
  Operation("getRestfulInfo", <<accountId, limit, order, timestamp, transactionType,
            transactions>>,
            "Error getting detailed account info",
            AxiosGet("mirrors/" \o groups["accounts"].basePath \o "/"
                     \o ToStr(accountId),
                     ObjLit(<<Prop("params",
                       ObjLit(<<Prop("limit", limit), Prop("order", order),
                                Prop("timestamp", timestamp),
                                Prop("transactionType", transactionType),
                                Prop("transactions", transactions)>>))>>)))

getNftsForAccount(accountId) ==
  Operation("getNftsForAccount", <<accountId>>,
            "Error getting NFTs for account",
            AxiosGet("mirrors/" \o groups["accounts"].basePath \o "/"
                     \o ToStr(accountId) \o "/nfts",
                     Absent))

\* a variant of getStakingRewardsForAccount that fills in a page size:
\* params: { limit: limit ?? 25, order, timestamp }
getStakingRewardsForAccount_DefaultLimit(accountId, limit, order, timestamp) ==
  Operation("getStakingRewardsForAccount", <<accountId, limit, order, timestamp>>,
            "Error getting staking rewards",
            AxiosGet("mirrors/" \o groups["accounts"].basePath \o "/" \o ToStr(accountId)
                     \o "/rewards",
                     ObjLit(<<Prop("params",
                       ObjLit(<<Prop("limit", IF limit = Undefined THEN Num(25) ELSE limit),
                                Prop("order", order),
                                Prop("timestamp", timestamp)>>))>>)))

getStakingRewardsForAccount(accountId, limit, order, timestamp) ==
  Operation("getStakingRewardsForAccount", <<accountId, limit, order, timestamp>>,
            "Error getting staking rewards",
            AxiosGet("mirrors/" \o groups["accounts"].basePath \o "/"
                     \o ToStr(accountId) \o "/rewards",
                     ObjLit(<<Prop("params",
                       ObjLit(<<Prop("limit", limit), Prop("order", order),
                                Prop("timestamp", timestamp)>>))>>)))

\* a variant of getTokenRelationships that names its token filter token.id:
\* params: { limit, order, 'token.id': token }
getTokenRelationships_TokenId(accountId, limit, order, token) ==
  Operation("getTokenRelationships", <<accountId, limit, order, token>>,
            "Error getting token relationships",
            AxiosGet("mirrors/" \o groups["accounts"].basePath \o "/"
                     \o ToStr(accountId) \o "/tokens",
                     ObjLit(<<Prop("params",
                       ObjLit(<<Prop("limit", limit), Prop("order", order),
                                Prop("token.id", token)>>))>>)))

getTokenRelationships(accountId, limit, order, token) ==
  Operation("getTokenRelationships", <<accountId, limit, order, token>>,
            "Error getting token relationships",
            AxiosGet("mirrors/" \o groups["accounts"].basePath \o "/"
                     \o ToStr(accountId) \o "/tokens",
                     ObjLit(<<Prop("params",
                       ObjLit(<<Prop("limit", limit), Prop("order", order),
                                Prop("token", token)>>))>>)))

(***************************************************************************)
(* TransactionsHashgraphRestful (base path transactions).                  *)
(***************************************************************************)
\* const params = new URLSearchParams();
\* if (nonce !== undefined) params.append('nonce', nonce.toString());
\* if (scheduled !== undefined) params.append('scheduled', scheduled.toString());
\* a variant of NonceScheduledParams that tests the filters for truth,
\* if (nonce) ... if (scheduled) ..., and so drops 0 and false
NonceScheduledParams_Truthy(nonce, scheduled) ==
  SearchParams(
    (IF nonce \notin {Undefined, Null, Num(0)}
       THEN <<Prop("nonce", Str(ToStr(nonce)))>> ELSE <<>>)
    \o (IF scheduled \notin {Undefined, Null, Bool(FALSE)}
          THEN <<Prop("scheduled", Str(ToStr(scheduled)))>> ELSE <<>>))

NonceScheduledParams(nonce, scheduled) ==
  LET n == IF nonce # Undefined THEN MethodToString(nonce) ELSE Absent
      sch == IF scheduled # Undefined THEN MethodToString(scheduled) ELSE Absent
  IN CASE IsThrown(n) -> n
       [] IsThrown(sch) -> sch
       [] OTHER ->
            SearchParams(
              (IF n # Absent THEN <<Prop("nonce", n)>> ELSE <<>>)
              \o (IF sch # Absent THEN <<Prop("scheduled", sch)>> ELSE <<>>))

\* a statement of the try block that uses value v: when computing v threw,
\* the statement is not reached
Try(v, statement) == IF IsThrown(v) THEN v ELSE statement

getTransactionById(transactionId, nonce, scheduled) ==
  Operation("getTransactionById", <<transactionId, nonce, scheduled>>,
            "Error getting transaction by ID",
            Try(NonceScheduledParams(nonce, scheduled),
              AxiosGet(groups["transactions"].basePath \o "/" \o ToStr(transactionId),
                       ObjLit(<<Prop("params", NonceScheduledParams(nonce, scheduled))>>))))

\* a variant of getTransactions that copies the filter and gives it a limit
\* when the caller gave none
getTransactions_DefaultLimit(params) ==
  Operation("getTransactions", <<params>>,
            "Error getting transactions",
            AxiosGet(groups["transactions"].basePath,
                     ObjLit(<<Prop("params",
                       IF HasKey(params, "limit")
                         THEN ObjLit(params.e)
                         ELSE ObjLit(params.e \o <<Prop("limit", Num(25))>>))>>)))

getTransactions(params) ==
  Operation("getTransactions", <<params>>,
            "Error getting transactions",
            AxiosGet(groups["transactions"].basePath,
                     ObjLit(<<Prop("params", params)>>)))

getRestfulTransactionById(transactionId, nonce, scheduled) ==
  Operation("getRestfulTransactionById", <<transactionId, nonce, scheduled>>,
            "Error getting transaction from mirror",
            Try(NonceScheduledParams(nonce, scheduled),
              AxiosGet("mirrors/" \o groups["transactions"].basePath \o "/"
                       \o ToStr(transactionId),
                       ObjLit(<<Prop("params", NonceScheduledParams(nonce, scheduled))>>))))

getTransactionStateProof(transactionId, nonce, scheduled) ==
  Operation("getTransactionStateProof", <<transactionId, nonce, scheduled>>,
            "Error getting transaction state proof",
            Try(NonceScheduledParams(nonce, scheduled),
              AxiosGet("mirrors/" \o groups["transactions"].basePath \o "/"
                       \o ToStr(transactionId) \o "/stateproof",
                       ObjLit(<<Prop("params", NonceScheduledParams(nonce, scheduled))>>))))

getScheduledTransaction(scheduleId) ==
  Operation("getScheduledTransaction", <<scheduleId>>,
            "Error getting scheduled transaction",
            AxiosGet("mirrors/" \o groups["transactions"].basePath \o "/schedules/"
                     \o ToStr(scheduleId),
                     Absent))

(***************************************************************************)
(* HcsHashgraphRestful (base path hcs).                                    *)
(***************************************************************************)
createTopic(params) ==
  Operation("createTopic", <<params>>,
            "Error creating topic",
            AxiosPost(groups["hcs"].basePath,
                     params))

updateTopic(topicId, params) ==
  Operation("updateTopic", <<topicId, params>>,
            "Error updating topic",
            AxiosPut(groups["hcs"].basePath \o "/" \o ToStr(topicId),
                     params))

\* a variant of deleteTopic that passes the payload as the config itself:
\* axios.delete(url, params)
deleteTopic_PayloadAsConfig(topicId, params) ==
  Operation("deleteTopic", <<topicId, params>>,
            "Error deleting topic",
            AxiosDelete(groups["hcs"].basePath \o "/" \o ToStr(topicId),
                     params))

deleteTopic(topicId, params) ==
  Operation("deleteTopic", <<topicId, params>>,
            "Error deleting topic",
            AxiosDelete(groups["hcs"].basePath \o "/" \o ToStr(topicId),
                     ObjLit(<<Prop("data", params)>>)))

getTopicInfo(topicId) ==
  Operation("getTopicInfo", <<topicId>>,
            "Error getting topic info",
            AxiosGet(groups["hcs"].basePath \o "/" \o ToStr(topicId),
                     Absent))

submitMessage(topicId, params) ==
  Operation("submitMessage", <<topicId, params>>,
            "Error submitting message",
            AxiosPost(groups["hcs"].basePath \o "/" \o ToStr(topicId) \o "/message",
                     params))

getMessages(topicId, params) ==
  Operation("getMessages", <<topicId, params>>,
            "Error getting messages",
            AxiosGet(groups["hcs"].basePath \o "/" \o ToStr(topicId) \o "/messages",
                     ObjLit(<<Prop("params", params)>>)))

getRestfulMessages(topicId, encoding, limit, order, sequenceNumber, timestamp) ==
  Operation("getRestfulMessages", <<topicId, encoding, limit, order, sequenceNumber,
            timestamp>>,
            "Error getting messages",
            AxiosGet("mirrors/" \o groups["hcs"].basePath \o "/topics/"
                     \o ToStr(topicId) \o "/messages",
                     ObjLit(<<Prop("params",
                       ObjLit(<<Prop("encoding", encoding), Prop("limit", limit),
                                Prop("order", order),
                                Prop("sequenceNumber", sequenceNumber),
                                Prop("timestamp", timestamp)>>))>>)))

getMessageByIdAndSequenceNumber(topicId, sequenceNumber) ==
  Operation("getMessageByIdAndSequenceNumber", <<topicId, sequenceNumber>>,
            "Error getting message by sequence",
            AxiosGet("mirrors/" \o groups["hcs"].basePath \o "/topics/"
                     \o ToStr(topicId) \o "/messages/" \o ToStr(sequenceNumber),
                     Absent))

getMessageByTimestamp(timestamp) ==
  Operation("getMessageByTimestamp", <<timestamp>>,
            "Error getting message by timestamp",
            AxiosGet("mirrors/" \o groups["hcs"].basePath \o "/topics/messages/"
                     \o ToStr(timestamp),
                     Absent))

(***************************************************************************)
(* HtsHashgraphRestful (base path hts).                                    *)
(***************************************************************************)
createToken(params) ==
  Operation("createToken", <<params>>,
            "Error creating token",
            AxiosPost(groups["hts"].basePath \o "/create/token",
                     params))

updateToken(tokenId, params) ==
  Operation("updateToken", <<tokenId, params>>,
            "Error updating token",
            AxiosPatch(groups["hts"].basePath \o "/update/" \o ToStr(tokenId),
                     params))

updateTokenFees(tokenId, params) ==
  Operation("updateTokenFees", <<tokenId, params>>,
            "Error updating token fees",
            AxiosPatch(groups["hts"].basePath \o "/update/" \o ToStr(tokenId) \o "/fees",
                     params))

deleteToken(tokenId) ==
  Operation("deleteToken", <<tokenId>>,
            "Error deleting token",
            AxiosDelete(groups["hts"].basePath \o "/delete/" \o ToStr(tokenId),
                     Absent))

\* a variant of pauseToken that posts an empty object as the body
pauseToken_EmptyBody(tokenId) ==
  Operation("pauseToken", <<tokenId>>,
            "Error pausing token",
            AxiosPost(groups["hts"].basePath \o "/pause/" \o ToStr(tokenId),
                     ObjLit(<<>>)))

pauseToken(tokenId) ==
  Operation("pauseToken", <<tokenId>>,
            "Error pausing token",
            AxiosPost(groups["hts"].basePath \o "/pause/" \o ToStr(tokenId),
                     Absent))

unpauseToken(tokenId) ==
  Operation("unpauseToken", <<tokenId>>,
            "Error unpausing token",
            AxiosPost(groups["hts"].basePath \o "/unpause/" \o ToStr(tokenId),
                     Absent))

freezeToken(tokenId) ==
  Operation("freezeToken", <<tokenId>>,
            "Error freezing token",
            AxiosPost(groups["hts"].basePath \o "/freeze/" \o ToStr(tokenId),
                     Absent))

unfreezeToken(tokenId) ==
  Operation("unfreezeToken", <<tokenId>>,
            "Error unfreezing token",
            AxiosPost(groups["hts"].basePath \o "/unfreeze/" \o ToStr(tokenId),
                     Absent))

grantKyc(tokenId, params) ==
  Operation("grantKyc", <<tokenId, params>>,
            "Error granting KYC",
            AxiosPost(groups["hts"].basePath \o "/grant-kyc/" \o ToStr(tokenId),
                     params))

revokeKyc(tokenId, params) ==
  Operation("revokeKyc", <<tokenId, params>>,
            "Error revoking KYC",
            AxiosPost(groups["hts"].basePath \o "/revoke-kyc/" \o ToStr(tokenId),
                     params))

mintToken(params) ==
  Operation("mintToken", <<params>>,
            "Error minting token",
            AxiosPost(groups["hts"].basePath \o "/mint/token",
                     params))

\* a variant of wipeToken that goes through the mirror path
wipeToken_Mirror(params) ==
  Operation("wipeToken", <<params>>,
            "Error wiping token",
            AxiosPost("mirrors/" \o groups["hts"].basePath \o "/wipe/token",
                     params))

wipeToken(params) ==
  Operation("wipeToken", <<params>>,
            "Error wiping token",
            AxiosPost(groups["hts"].basePath \o "/wipe/token",
                     params))

burnToken(params) ==
  Operation("burnToken", <<params>>,
            "Error burning token",
            AxiosPost(groups["hts"].basePath \o "/burn/token",
                     params))

mintNftToken(params) ==
  Operation("mintNftToken", <<params>>,
            "Error minting NFT token",
            AxiosPost(groups["hts"].basePath \o "/mint/nft",
                     params))

wipeNftToken(params) ==
  Operation("wipeNftToken", <<params>>,
            "Error wiping NFT token",
            AxiosPost(groups["hts"].basePath \o "/wipe/nft",
                     params))

burnNftToken(params) ==
  Operation("burnNftToken", <<params>>,
            "Error burning NFT token",
            AxiosPost(groups["hts"].basePath \o "/burn/nft",
                     params))

getTokenInfo(tokenId) ==
  Operation("getTokenInfo", <<tokenId>>,
            "Error getting token info",
            AxiosGet(groups["hts"].basePath \o "/token/" \o ToStr(tokenId),
                     Absent))

getNftInfo(tokenId, serialNumber) ==
  Operation("getNftInfo", <<tokenId, serialNumber>>,
            "Error getting NFT info",
            AxiosGet(groups["hts"].basePath \o "/nft/" \o ToStr(tokenId) \o "/"
                     \o ToStr(serialNumber),
                     Absent))

getRestfulTokenInfo(tokenId, timestamp) ==
  Operation("getRestfulTokenInfo", <<tokenId, timestamp>>,
            "Error getting token info",
            AxiosGet("mirrors/" \o groups["hts"].basePath \o "/tokens/"
                     \o ToStr(tokenId),
                     ObjLit(<<Prop("params",
                       ObjLit(<<Prop("timestamp", timestamp)>>))>>)))

getTokenBalances(tokenId, accountBalance, accountId, accountPublicKey, limit, order, timestamp) ==
  Operation("getTokenBalances", <<tokenId, accountBalance, accountId, accountPublicKey,
            limit, order, timestamp>>,
            "Error getting token balances",
            AxiosGet("mirrors/" \o groups["hts"].basePath \o "/tokens/"
                     \o ToStr(tokenId) \o "/balances",
                     ObjLit(<<Prop("params",
                       ObjLit(<<Prop("accountBalance", accountBalance),
                                Prop("accountId", accountId),
                                Prop("accountPublicKey", accountPublicKey),
                                Prop("limit", limit), Prop("order", order),
                                Prop("timestamp", timestamp)>>))>>)))

\* a variant of getTokenNfts that asks the primary API
getTokenNfts_Primary(tokenId, accountId, limit, order, serialNumber) ==
  Operation("getTokenNfts", <<tokenId, accountId, limit, order, serialNumber>>,
            "Error getting token NFTs",
            AxiosGet(groups["hts"].basePath \o "/tokens/" \o ToStr(tokenId) \o "/nfts",
                     ObjLit(<<Prop("params",
                       ObjLit(<<Prop("accountId", accountId), Prop("limit", limit),
                                Prop("order", order),
                                Prop("serialNumber", serialNumber)>>))>>)))

getTokenNfts(tokenId, accountId, limit, order, serialNumber) ==
  Operation("getTokenNfts", <<tokenId, accountId, limit, order, serialNumber>>,
            "Error getting token NFTs",
            AxiosGet("mirrors/" \o groups["hts"].basePath \o "/tokens/"
                     \o ToStr(tokenId) \o "/nfts",
                     ObjLit(<<Prop("params",
                       ObjLit(<<Prop("accountId", accountId), Prop("limit", limit),
                                Prop("order", order), Prop("serialNumber", serialNumber)>>))>>)))

getTokenNftBySerialNumber(tokenId, serialNumber) ==
  Operation("getTokenNftBySerialNumber", <<tokenId, serialNumber>>,
            "Error getting NFT by serial number",
            AxiosGet("mirrors/" \o groups["hts"].basePath \o "/tokens/"
                     \o ToStr(tokenId) \o "/nfts/" \o ToStr(serialNumber),
                     Absent))

\* a variant of getTokenNftTransactionHistory that puts the serial number in
\* the path, where getTokenNftBySerialNumber has it
getTokenNftTransactionHistory_BySerial(tokenId, serialNumber, limit, order, timestamp) ==
  Operation("getTokenNftTransactionHistory", <<tokenId, serialNumber, limit, order,
            timestamp>>,
            "Error getting NFT transaction history",
            AxiosGet("mirrors/" \o groups["hts"].basePath \o "/tokens/"
                     \o ToStr(tokenId) \o "/nfts/" \o ToStr(serialNumber),
                     ObjLit(<<Prop("params",
                       ObjLit(<<Prop("limit", limit), Prop("order", order),
                                Prop("timestamp", timestamp)>>))>>)))

getTokenNftTransactionHistory(tokenId, serialNumber, limit, order, timestamp) ==
  Operation("getTokenNftTransactionHistory", <<tokenId, serialNumber, limit, order,
            timestamp>>,
            "Error getting NFT transaction history",
            AxiosGet("mirrors/" \o groups["hts"].basePath \o "/tokens/"
                     \o ToStr(tokenId) \o "/nfts/transactions",
                     ObjLit(<<Prop("params",
                       ObjLit(<<Prop("serialNumber", serialNumber),
                                Prop("limit", limit), Prop("order", order),
                                Prop("timestamp", timestamp)>>))>>)))

Next ==
  \/ Invoke(getIdentifier)
  \/ Invoke(getStatus)
  \/ Invoke(getNetwork)
  \/ Invoke(getUtilities)
  \/ \E validationParams \in Drawn(Payloads, Payload) :
       Invoke(addConsensusValidator(validationParams))
  \/ \E timestamp \in Drawn(PathTimestamps, Str("1700000000.000000001")) :
       Invoke(readConsensusValidator(timestamp))
  \/ \E validationParams \in Drawn(Payloads, Payload) :
       Invoke(addTokenValidator(validationParams))
  \/ \E timestamp \in Drawn(PathTimestamps, Str("1700000000.000000001")) :
       Invoke(readTokenValidator(timestamp))
  \/ \E validationParams \in Drawn(Payloads, Payload) :
       Invoke(addAccountValidator(validationParams))
  \/ \E timestamp \in Drawn(PathTimestamps, Str("1700000000.000000001")) :
       Invoke(readAccountValidator(timestamp))
  \/ \E accountId \in Drawn(AccountIds, Str("0.0.1001")) : Invoke(getInfo(accountId))
  \/ \E accountId \in Drawn(AccountIds, Str("0.0.1001")) : Invoke(getKeys(accountId))
  \/ \E accountId \in Drawn(AccountIds, Str("0.0.1001")) :
       Invoke(getQueryBalance(accountId))
  \/ \E params \in Drawn(Payloads, Payload) : Invoke(createAccount(params))
  \/ \E accountId \in Drawn(AccountIds, Str("0.0.1001")),
        params \in Drawn(Payloads, Payload) :
       Invoke(deleteAccount(accountId, params))
  \/ \E accountId \in Drawn(AccountIds, Str("0.0.1001")),
        params \in Drawn(Payloads, Payload) :
       Invoke(updateAccount(accountId, params))
  \/ \E params \in Drawn(Payloads, Payload) : Invoke(transferHbar(params))
  \/ \E params \in Drawn(Payloads, Payload) : Invoke(transferToken(params))
  \/ \E params \in Drawn(Payloads, Payload) : Invoke(transferNftToken(params))
  \/ \E params \in Drawn(Payloads, Payload) : Invoke(atomicSwap(params))
  \/ \E params \in Drawn(Payloads, Payload) : Invoke(approveAllowance(params))
  \/ \E params \in Drawn(Payloads, Payload) : Invoke(deleteAllowance(params))
  \/ \E accountId \in Drawn(AccountIds, Str("0.0.1001")), limit \in OptLimit,
        order \in Drawn(OptOrder, Undefined),
        timestamp \in Drawn(OptTimestamp, Undefined),
        transactionType \in Drawn(OptTransactionType, Undefined),
        transactions \in Drawn(OptTransactions, Undefined) :
       Invoke(getRestfulInfo(accountId, limit, order, timestamp, transactionType, transactions))
  \/ \E accountId \in Drawn(AccountIds, Str("0.0.1001")) :
       Invoke(getNftsForAccount(accountId))
  \/ \E accountId \in Drawn(AccountIds, Str("0.0.1001")), limit \in OptLimit,
        order \in Drawn(OptOrder, Undefined),
        timestamp \in Drawn(OptTimestamp, Undefined) :
       Invoke(getStakingRewardsForAccount(accountId, limit, order, timestamp))
  \/ \E accountId \in Drawn(AccountIds, Str("0.0.1001")), limit \in OptLimit,
        order \in Drawn(OptOrder, Undefined), token \in Drawn(OptToken, Undefined) :
       Invoke(getTokenRelationships(accountId, limit, order, token))
  \/ \E transactionId \in Drawn(TransactionIds, Str("0.0.1001-1700000000-000000001")),
        nonce \in DrawnOptional(OptNonce, Num(0)),
        scheduled \in DrawnOptional(OptScheduled, Undefined) :
       Invoke(getTransactionById(transactionId, nonce, scheduled))
  \/ \E params \in Drawn(TransactionFilters, EmptyFilter) : Invoke(getTransactions(params))
  \/ \E transactionId \in Drawn(TransactionIds, Str("0.0.1001-1700000000-000000001")),
        nonce \in DrawnOptional(OptNonce, Num(0)),
        scheduled \in DrawnOptional(OptScheduled, Undefined) :
       Invoke(getRestfulTransactionById(transactionId, nonce, scheduled))
  \/ \E transactionId \in Drawn(TransactionIds, Str("0.0.1001-1700000000-000000001")),
        nonce \in DrawnOptional(OptNonce, Num(0)),
        scheduled \in DrawnOptional(OptScheduled, Undefined) :
       Invoke(getTransactionStateProof(transactionId, nonce, scheduled))
  \/ \E scheduleId \in Drawn(ScheduleIds, Str("0.0.3000")) :
       Invoke(getScheduledTransaction(scheduleId))
  \/ \E params \in Drawn(Payloads, Payload) : Invoke(createTopic(params))
  \/ \E topicId \in Drawn(TopicIds, Str("0.0.2000")),
        params \in Drawn(Payloads, Payload) :
       Invoke(updateTopic(topicId, params))
  \/ \E topicId \in Drawn(TopicIds, Str("0.0.2000")),
        params \in Drawn(Payloads, Payload) :
       Invoke(deleteTopic(topicId, params))
  \/ \E topicId \in Drawn(TopicIds, Str("0.0.2000")) : Invoke(getTopicInfo(topicId))
  \/ \E topicId \in Drawn(TopicIds, Str("0.0.2000")),
        params \in Drawn(Payloads, Payload) :
       Invoke(submitMessage(topicId, params))
  \/ \E topicId \in Drawn(TopicIds, Str("0.0.2000")),
        params \in Drawn(Filters, EmptyFilter) :
       Invoke(getMessages(topicId, params))
  \/ \E topicId \in Drawn(TopicIds, Str("0.0.2000")),
        encoding \in Drawn(OptEncoding, Undefined), limit \in OptLimit,
        order \in Drawn(OptOrder, Undefined),
        sequenceNumber \in Drawn(OptSequenceNumber, Undefined),
        timestamp \in Drawn(OptTimestamp, Undefined) :
       Invoke(getRestfulMessages(topicId, encoding, limit, order, sequenceNumber, timestamp))
  \/ \E topicId \in Drawn(TopicIds, Str("0.0.2000")),
        sequenceNumber \in Drawn(SequenceNumbers, Num(7)) :
       Invoke(getMessageByIdAndSequenceNumber(topicId, sequenceNumber))
  \/ \E timestamp \in Drawn(PathTimestamps, Str("1700000000.000000001")) :
       Invoke(getMessageByTimestamp(timestamp))
  \/ \E params \in Drawn(Payloads, Payload) : Invoke(createToken(params))
  \/ \E tokenId \in Drawn(TokenIds, Str("0.0.500")), params \in Drawn(Payloads, Payload) :
       Invoke(updateToken(tokenId, params))
  \/ \E tokenId \in Drawn(TokenIds, Str("0.0.500")), params \in Drawn(Payloads, Payload) :
       Invoke(updateTokenFees(tokenId, params))
  \/ \E tokenId \in Drawn(TokenIds, Str("0.0.500")) : Invoke(deleteToken(tokenId))
  \/ \E tokenId \in Drawn(TokenIds, Str("0.0.500")) : Invoke(pauseToken(tokenId))
  \/ \E tokenId \in Drawn(TokenIds, Str("0.0.500")) : Invoke(unpauseToken(tokenId))
  \/ \E tokenId \in Drawn(TokenIds, Str("0.0.500")) : Invoke(freezeToken(tokenId))
  \/ \E tokenId \in Drawn(TokenIds, Str("0.0.500")) : Invoke(unfreezeToken(tokenId))
  \/ \E tokenId \in Drawn(TokenIds, Str("0.0.500")), params \in Drawn(Payloads, Payload) :
       Invoke(grantKyc(tokenId, params))
  \/ \E tokenId \in Drawn(TokenIds, Str("0.0.500")), params \in Drawn(Payloads, Payload) :
       Invoke(revokeKyc(tokenId, params))
  \/ \E params \in Drawn(Payloads, Payload) : Invoke(mintToken(params))
  \/ \E params \in Drawn(Payloads, Payload) : Invoke(wipeToken(params))
  \/ \E params \in Drawn(Payloads, Payload) : Invoke(burnToken(params))
  \/ \E params \in Drawn(Payloads, Payload) : Invoke(mintNftToken(params))
  \/ \E params \in Drawn(Payloads, Payload) : Invoke(wipeNftToken(params))
  \/ \E params \in Drawn(Payloads, Payload) : Invoke(burnNftToken(params))
  \/ \E tokenId \in Drawn(TokenIds, Str("0.0.500")) : Invoke(getTokenInfo(tokenId))
  \/ \E tokenId \in Drawn(TokenIds, Str("0.0.500")),
        serialNumber \in Drawn(SerialNumbers, Num(1)) :
       Invoke(getNftInfo(tokenId, serialNumber))
  \/ \E tokenId \in Drawn(TokenIds, Str("0.0.500")),
        timestamp \in Drawn(OptTimestamp, Undefined) :
       Invoke(getRestfulTokenInfo(tokenId, timestamp))
  \/ \E tokenId \in Drawn(TokenIds, Str("0.0.500")),
        accountBalance \in Drawn(OptAccountBalance, Undefined),
        accountId \in Drawn(OptAccountId, Undefined),
        accountPublicKey \in Drawn(OptAccountPublicKey, Undefined), limit \in OptLimit,
        order \in Drawn(OptOrder, Undefined),
        timestamp \in Drawn(OptTimestamp, Undefined) :
       Invoke(getTokenBalances(tokenId, accountBalance, accountId, accountPublicKey, limit, order, timestamp))
  \/ \E tokenId \in Drawn(TokenIds, Str("0.0.500")),
        accountId \in Drawn(OptAccountId, Undefined), limit \in OptLimit,
        order \in Drawn(OptOrder, Undefined),
        serialNumber \in Drawn(OptSerialNumber, Undefined) :
       Invoke(getTokenNfts(tokenId, accountId, limit, order, serialNumber))
  \/ \E tokenId \in Drawn(TokenIds, Str("0.0.500")),
        serialNumber \in Drawn(SerialNumbers, Num(1)) :
       Invoke(getTokenNftBySerialNumber(tokenId, serialNumber))
  \/ \E tokenId \in Drawn(TokenIds, Str("0.0.500")),
        serialNumber \in Drawn(SerialNumbers, Num(1)), limit \in OptLimit,
        order \in Drawn(OptOrder, Undefined),
        timestamp \in Drawn(OptTimestamp, Undefined) :
       Invoke(getTokenNftTransactionHistory(tokenId, serialNumber, limit, order, timestamp))
  \/ TransportFulfil
  \/ TransportReject
  \/ Return
  \/ Catch

\* module initialisation, then the operations of the constructed facade
NextModule ==
  \/ \E options \in AsyncOptions : forRootAsync(options)
  \/ createTestingModule
  \/ ResolveClient
  \/ ResolveSdkOptions
  \/ InstantiateService
  \/ Next

Spec == Init /\ [][Next]_vars

\* one call of a caller that may pass null
SpecUntyped == InitUntyped /\ [][Next]_vars

\* from the module's initialisation on
SpecModule == InitModule /\ [][NextModule]_vars

SpecCall == InitCall /\ [][Next]_vars

\* one call per behaviour, and the event loop runs the continuation of every
\* settled promise: a call whose request has settled does return or throw
SpecCallFair == InitCall /\ [][Next]_vars /\ WF_vars(Return) /\ WF_vars(Catch)

(***************************************************************************)
(* Vocabulary of the properties.                                           *)
(***************************************************************************)
\* the request that was issued for call c
RequestOf(c) == requests[Awaited(c)]

\* the query parameters handed to the transport with request r
QueryOf(r) ==
  IF r.config # Absent /\ HasKey(r.config, "params")
    THEN GetProp(r.config, "params")
    ELSE Absent

\* the keys of object o that carry a value
DefinedKeys(o) == {k \in Keys(o) : GetProp(o, k) # Undefined}

Settled(c) == calls[c].pc \in {"resolved", "rejected"}

\* the records logger.error received for call c
ErrorRecordsOf(c) == {i \in DOMAIN errlog : errlog[i].call = c}

\* the query key of each positional argument that is optional ("" for a
\* required argument), by the signatures of the operations
OptionalKeys(op) ==
  CASE op = "getRestfulInfo" ->
         <<"", "limit", "order", "timestamp", "transactionType", "transactions">>
    [] op = "getStakingRewardsForAccount" -> <<"", "limit", "order", "timestamp">>
    [] op = "getTokenRelationships" -> <<"", "limit", "order", "token">>
    [] op = "getTransactionById" -> <<"", "nonce", "scheduled">>
    [] op = "getRestfulTransactionById" -> <<"", "nonce", "scheduled">>
    [] op = "getTransactionStateProof" -> <<"", "nonce", "scheduled">>
    [] op = "getRestfulMessages" ->
         <<"", "encoding", "limit", "order", "sequenceNumber", "timestamp">>
    [] op = "getRestfulTokenInfo" -> <<"", "timestamp">>
    [] op = "getTokenBalances" ->
         <<"", "accountBalance", "accountId", "accountPublicKey", "limit", "order",
           "timestamp">>
    [] op = "getTokenNfts" -> <<"", "accountId", "limit", "order", "serialNumber">>
    [] op = "getTokenNftTransactionHistory" -> <<"", "", "limit", "order", "timestamp">>
    [] OTHER -> <<>>

\* the listing queries whose filters are optional positional arguments
ListingOps ==
  {"getRestfulInfo", "getStakingRewardsForAccount", "getTokenRelationships",
   "getRestfulMessages", "getRestfulTokenInfo", "getTokenBalances", "getTokenNfts",
   "getTokenNftTransactionHistory"}

\* the filtering queries that take a filter object built by the caller
FilterObjectOps == {"getTransactions", "getMessages"}

\* the mutating operations and the base path of their group
MutatingOpsOf(g) ==
  CASE g = "validators" ->
         {"addConsensusValidator", "addTokenValidator", "addAccountValidator"}
    [] g = "accounts" ->
         {"createAccount", "deleteAccount", "updateAccount", "transferHbar",
          "transferToken", "transferNftToken", "atomicSwap", "approveAllowance",
          "deleteAllowance"}
    [] g = "hcs" -> {"createTopic", "updateTopic", "deleteTopic", "submitMessage"}
    [] g = "hts" ->
         {"createToken", "updateToken", "updateTokenFees", "deleteToken", "pauseToken",
          "unpauseToken", "freezeToken", "unfreezeToken", "grantKyc", "revokeKyc",
          "mintToken", "wipeToken", "burnToken", "mintNftToken", "wipeNftToken",
          "burnNftToken"}
    [] OTHER -> {}

MutatingOps == UNION {MutatingOpsOf(g) : g \in GroupNames}

\* the mutating operations that take a payload (their last argument), by verb
BodyPayloadOps ==
  MutatingOps \ {"deleteAccount", "deleteTopic", "deleteToken", "pauseToken",
                 "unpauseToken", "freezeToken", "unfreezeToken"}

DataOptionPayloadOps == {"deleteAccount", "deleteTopic"}

\* the read-only operations: every operation that is not a mutating one
ReadOnly(op) == op \notin MutatingOps

(***************************************************************************)
(* C1  optional arguments left undefined                                   *)
(***************************************************************************)
TokenBalancesScenario ==
  <<Str("0.0.500"), Undefined, Str("0.0.1001"), Undefined, Num(10), Str("desc"),
    Undefined>>

\* C1 as stated: an optional argument left undefined is not a key of the
\* parameter set handed to the transport, and the getTokenBalances scenario
\* hands over the keys accountId, limit and order and no other key.
C1_UndefinedKeyAbsent ==
  \A c \in DOMAIN calls :
    LET keys == OptionalKeys(calls[c].op)
        q == QueryOf(RequestOf(c))
    IN /\ \A i \in DOMAIN keys :
            (keys[i] # "" /\ calls[c].args[i] = Undefined) => keys[i] \notin Keys(q)
       /\ (calls[c].op = "getTokenBalances" /\ calls[c].args = TokenBalancesScenario)
            => Keys(q) = {"accountId", "limit", "order"}

\* C1 amended: an optional argument left undefined carries no value in the
\* parameter set handed to the transport (its key is missing, or present with
\* the value undefined), and a supplied one does; in the getTokenBalances
\* scenario the keys with a value are exactly accountId, limit and order, and
\* accountBalance, accountPublicKey and timestamp are keys whose value is undefined.
C1_UndefinedCarriesNoValue ==
  \A c \in DOMAIN calls :
    LET keys == OptionalKeys(calls[c].op)
        q == QueryOf(RequestOf(c))
    IN /\ \A i \in DOMAIN keys :
            keys[i] # "" =>
              (keys[i] \in DefinedKeys(q) <=> calls[c].args[i] # Undefined)
       /\ (calls[c].op = "getTokenBalances" /\ calls[c].args = TokenBalancesScenario)
            => /\ DefinedKeys(q) = {"accountId", "limit", "order"}
               /\ Keys(q) \ DefinedKeys(q) =
                    {"accountBalance", "accountPublicKey", "timestamp"}

\* the getTokenBalances scenario has been called and its request issued
C1_Witness ==
  \E c \in DOMAIN calls :
    /\ calls[c].op = "getTokenBalances"
    /\ calls[c].args = TokenBalancesScenario
    /\ RequestOf(c).url = "mirrors/hts/tokens/0.0.500/balances"

(***************************************************************************)
(* C2  documented verb and path                                            *)
(***************************************************************************)
\* C2: for every identifier, getInfo is GET accounts/{id}, getQueryBalance is
\* GET accounts/{id}/balance, mintToken is POST hts/mint/token, submitMessage
\* is POST hcs/{topicId}/message, getNftsForAccount is GET
\* mirrors/accounts/{id}/nfts and getTokenBalances is GET
\* mirrors/hts/tokens/{tokenId}/balances.
C2_DocumentedVerbAndPath ==
  \A c \in DOMAIN calls :
    LET r == RequestOf(c)
        op == calls[c].op
        id == calls[c].args[1].s
    IN /\ op = "getInfo" => r.verb = "GET" /\ r.url = "accounts/" \o id
       /\ op = "getQueryBalance" =>
            r.verb = "GET" /\ r.url = "accounts/" \o id \o "/balance"
       /\ op = "mintToken" => r.verb = "POST" /\ r.url = "hts/mint/token"
       /\ op = "submitMessage" =>
            r.verb = "POST" /\ r.url = "hcs/" \o id \o "/message"
       /\ op = "getNftsForAccount" =>
            r.verb = "GET" /\ r.url = "mirrors/accounts/" \o id \o "/nfts"
       /\ op = "getTokenBalances" =>
            r.verb = "GET" /\ r.url = "mirrors/hts/tokens/" \o id \o "/balances"

\* getInfo("0.0.1001") has issued GET accounts/0.0.1001 and returned the payload
C2_Witness ==
  \E c \in DOMAIN calls :
    /\ calls[c].op = "getInfo"
    /\ calls[c].args = <<Str("0.0.1001")>>
    /\ RequestOf(c).verb = "GET"
    /\ RequestOf(c).url = "accounts/0.0.1001"
    /\ calls[c].pc = "resolved"

(***************************************************************************)
(* C3  the caller observes the transport's own error                       *)
(***************************************************************************)
\* C3: a call whose transport request failed with error e never resolves, and
\* once settled it is rejected with that same e.
C3_SameErrorObserved ==
  \A c \in DOMAIN calls :
    RequestOf(c).state = "rejected" =>
      /\ calls[c].pc # "resolved"
      /\ Settled(c) => calls[c].pc = "rejected" /\ calls[c].result = RequestOf(c).outcome
      /\ RequestOf(c).outcome \in Errors

\* a call has been rejected with the transport's "not found" error
C3_Witness ==
  \E c \in DOMAIN calls :
    /\ RequestOf(c).state = "rejected"
    /\ RequestOf(c).outcome = Err("not found")
    /\ calls[c].pc = "rejected"
    /\ calls[c].result = Err("not found")

(***************************************************************************)
(* C4  at most one transport request per call                              *)
(***************************************************************************)
\* C4: every call has made at most one transport request, also after the
\* request failed and the call was rejected; no request belongs to no call.
C4_AtMostOneRequest ==
  /\ \A c \in DOMAIN calls : Cardinality(RequestsOf(c)) <= 1
  /\ \A i \in DOMAIN requests : requests[i].call \in DOMAIN calls
  /\ Len(requests) <= Len(calls)

\* a call was rejected after its request failed, and that request is its only one
C4_Witness ==
  \E c \in DOMAIN calls :
    /\ calls[c].pc = "rejected"
    /\ calls[c].result = Err("not found")
    /\ Cardinality(RequestsOf(c)) = 1
    /\ Len(calls) = MaxCalls

(***************************************************************************)
(* C5  listing and filtering queries and the mirror path                   *)
(***************************************************************************)
\* C5 as stated: every listing or filtering query, getTransactions and
\* getMessages included, is sent to a path that starts with mirrors/.
C5_AllQueriesOnMirror ==
  \A c \in DOMAIN calls :
    calls[c].op \in ListingOps \cup FilterObjectOps =>
      StartsWith(RequestOf(c).url, "mirrors/")

\* C5 amended: every listing query whose filters are optional positional
\* arguments is sent to a path that starts with mirrors/; getTransactions and
\* getMessages, which forward a filter object of the caller, are sent to the
\* primary paths transactions and hcs/{topicId}/messages.
C5_ListingOnMirrorFilterObjectOnPrimary ==
  \A c \in DOMAIN calls :
    LET r == RequestOf(c)
    IN /\ calls[c].op \in ListingOps => r.verb = "GET" /\ StartsWith(r.url, "mirrors/")
       /\ calls[c].op = "getTransactions" => r.verb = "GET" /\ r.url = "transactions"
       /\ calls[c].op = "getMessages" =>
            r.verb = "GET" /\ r.url = "hcs/" \o calls[c].args[1].s \o "/messages"

\* getTransactions has been called with a filter of limit and order, and its
\* request went to the primary path
C5_Witness ==
  \E c \in DOMAIN calls :
    /\ calls[c].op = "getTransactions"
    /\ Keys(calls[c].args[1]) = {"limit", "order"}
    /\ RequestOf(c).url = "transactions"

(***************************************************************************)
(* C6  mutating operations use the primary API                             *)
(***************************************************************************)
\* C6: the request of every mutating operation has a path that starts with
\* the base path of its group, never with mirrors/, and its verb is POST, PUT,
\* PATCH or DELETE, never GET.
C6_MutatingOnPrimary ==
  \A c \in DOMAIN calls :
    \A g \in GroupNames :
      calls[c].op \in MutatingOpsOf(g) =>
        /\ StartsWith(RequestOf(c).url, g)
        /\ ~ StartsWith(RequestOf(c).url, "mirrors/")
        /\ RequestOf(c).verb \in {"POST", "PUT", "PATCH", "DELETE"}

\* deleteAccount has issued DELETE accounts/0.0.9999
C6_Witness ==
  \E c \in DOMAIN calls :
    /\ calls[c].op = "deleteAccount"
    /\ RequestOf(c).verb = "DELETE"
    /\ RequestOf(c).url = "accounts/0.0.9999"

(***************************************************************************)
(* C7  the response body is returned unchanged                             *)
(***************************************************************************)
\* C7: a call whose transport request was fulfilled with a response of body d
\* never rejects, and once settled it has resolved with exactly d, also when d
\* is undefined.
C7_BodyReturnedUnchanged ==
  \A c \in DOMAIN calls :
    RequestOf(c).state = "fulfilled" =>
      \E d \in Bodies :
        /\ RequestOf(c).outcome = Obj("response", <<Prop("data", d)>>)
        /\ calls[c].pc # "rejected"
        /\ Settled(c) => calls[c].pc = "resolved" /\ calls[c].result = d

\* getStatus has resolved with an undefined body
C7_Witness ==
  \E c \in DOMAIN calls :
    /\ calls[c].op = "getStatus"
    /\ RequestOf(c).outcome = Obj("response", <<Prop("data", Undefined)>>)
    /\ calls[c].pc = "resolved"
    /\ calls[c].result = Undefined

(***************************************************************************)
(* C8  the payload is the body of the request                              *)
(***************************************************************************)
\* C8: a mutating operation with a payload issues one request that carries
\* exactly the caller's payload: as the body of a POST, PUT or PATCH, and as
\* the data option of the DELETE of deleteAccount and deleteTopic.
C8_PayloadIsBody ==
  \A c \in DOMAIN calls :
    LET r == RequestOf(c)
        payload == calls[c].args[Len(calls[c].args)]
    IN /\ calls[c].op \in BodyPayloadOps =>
            /\ Cardinality(RequestsOf(c)) = 1
            /\ r.verb \in {"POST", "PUT", "PATCH"}
            /\ r.data = payload
            /\ r.config = Absent
       /\ calls[c].op \in DataOptionPayloadOps =>
            /\ Cardinality(RequestsOf(c)) = 1
            /\ r.verb = "DELETE"
            /\ r.data = Absent
            /\ Keys(r.config) = {"data"}
            /\ GetProp(r.config, "data") = payload

\* submitMessage("0.0.2000", {message: "hi"}) has issued its POST with that body
C8_Witness ==
  \E c \in DOMAIN calls :
    /\ calls[c].op = "submitMessage"
    /\ calls[c].args = <<Str("0.0.2000"), Payload>>
    /\ RequestOf(c).verb = "POST"
    /\ RequestOf(c).url = "hcs/0.0.2000/message"
    /\ RequestOf(c).data = Obj("payload", <<Prop("message", Str("hi"))>>)

(***************************************************************************)
(* C9  a failure is recorded, then raised                                  *)
(***************************************************************************)
\* what holds of call c in every state: a rejected call has a failed request
\* and exactly one error record, which holds the transport's error; a record
\* exists only for a rejected call; a fulfilled request leaves no record and
\* no rejection
C9_Recorded(c) ==
  /\ calls[c].pc = "rejected" =>
       /\ RequestOf(c).state = "rejected"
       /\ Cardinality(ErrorRecordsOf(c)) = 1
       /\ \A i \in ErrorRecordsOf(c) :
            errlog[i].error = RequestOf(c).outcome /\ errlog[i].msg = calls[c].msg
  /\ ErrorRecordsOf(c) # {} => RequestOf(c).state = "rejected"
  /\ RequestOf(c).state = "fulfilled" =>
       ErrorRecordsOf(c) = {} /\ calls[c].pc # "rejected"

\* C9: a failed transport call leads to the rejection of the call, with
\* exactly one logger.error record written by the time the caller can observe
\* the rejection; a call whose request succeeds writes no record and never rejects.
C9_FailureRecordedThenRaised ==
  /\ [](\A c \in DOMAIN calls : C9_Recorded(c))
  /\ (\E c \in DOMAIN calls : RequestOf(c).state = "rejected")
       ~> (\E c \in DOMAIN calls :
             /\ RequestOf(c).state = "rejected"
             /\ calls[c].pc = "rejected"
             /\ Cardinality(ErrorRecordsOf(c)) = 1)

\* createToken failed: one record "Error creating token", then the rejection
C9_Witness ==
  \E c \in DOMAIN calls :
    /\ calls[c].op = "createToken"
    /\ calls[c].pc = "rejected"
    /\ errlog = <<[call |-> c, msg |-> "Error creating token",
                   error |-> Err("network error")]>>

RequestAlone(op, args) ==
  CASE op = "getIdentifier" ->
         getIdentifier.req
    [] op = "getStatus" ->
         getStatus.req
    [] op = "getNetwork" ->
         getNetwork.req
    [] op = "getUtilities" ->
         getUtilities.req
    [] op = "addConsensusValidator" ->
         addConsensusValidator(args[1]).req
    [] op = "readConsensusValidator" ->
         readConsensusValidator(args[1]).req
    [] op = "addTokenValidator" ->
         addTokenValidator(args[1]).req
    [] op = "readTokenValidator" ->
         readTokenValidator(args[1]).req
    [] op = "addAccountValidator" ->
         addAccountValidator(args[1]).req
    [] op = "readAccountValidator" ->
         readAccountValidator(args[1]).req
    [] op = "getInfo" ->
         getInfo(args[1]).req
    [] op = "getKeys" ->
         getKeys(args[1]).req
    [] op = "getQueryBalance" ->
         getQueryBalance(args[1]).req
    [] op = "createAccount" ->
         createAccount(args[1]).req
    [] op = "deleteAccount" ->
         deleteAccount(args[1], args[2]).req
    [] op = "updateAccount" ->
         updateAccount(args[1], args[2]).req
    [] op = "transferHbar" ->
         transferHbar(args[1]).req
    [] op = "transferToken" ->
         transferToken(args[1]).req
    [] op = "transferNftToken" ->
         transferNftToken(args[1]).req
    [] op = "atomicSwap" ->
         atomicSwap(args[1]).req
    [] op = "approveAllowance" ->
         approveAllowance(args[1]).req
    [] op = "deleteAllowance" ->
         deleteAllowance(args[1]).req
    [] op = "getRestfulInfo" ->
         getRestfulInfo(args[1], args[2], args[3], args[4], args[5], args[6]).req
    [] op = "getNftsForAccount" ->
         getNftsForAccount(args[1]).req
    [] op = "getStakingRewardsForAccount" ->
         getStakingRewardsForAccount(args[1], args[2], args[3], args[4]).req
    [] op = "getTokenRelationships" ->
         getTokenRelationships(args[1], args[2], args[3], args[4]).req
    [] op = "getTransactionById" ->
         getTransactionById(args[1], args[2], args[3]).req
    [] op = "getTransactions" ->
         getTransactions(args[1]).req
    [] op = "getRestfulTransactionById" ->
         getRestfulTransactionById(args[1], args[2], args[3]).req
    [] op = "getTransactionStateProof" ->
         getTransactionStateProof(args[1], args[2], args[3]).req
    [] op = "getScheduledTransaction" ->
         getScheduledTransaction(args[1]).req
    [] op = "createTopic" ->
         createTopic(args[1]).req
    [] op = "updateTopic" ->
         updateTopic(args[1], args[2]).req
    [] op = "deleteTopic" ->
         deleteTopic(args[1], args[2]).req
    [] op = "getTopicInfo" ->
         getTopicInfo(args[1]).req
    [] op = "submitMessage" ->
         submitMessage(args[1], args[2]).req
    [] op = "getMessages" ->
         getMessages(args[1], args[2]).req
    [] op = "getRestfulMessages" ->
         getRestfulMessages(args[1], args[2], args[3], args[4], args[5], args[6]).req
    [] op = "getMessageByIdAndSequenceNumber" ->
         getMessageByIdAndSequenceNumber(args[1], args[2]).req
    [] op = "getMessageByTimestamp" ->
         getMessageByTimestamp(args[1]).req
    [] op = "createToken" ->
         createToken(args[1]).req
    [] op = "updateToken" ->
         updateToken(args[1], args[2]).req
    [] op = "updateTokenFees" ->
         updateTokenFees(args[1], args[2]).req
    [] op = "deleteToken" ->
         deleteToken(args[1]).req
    [] op = "pauseToken" ->
         pauseToken(args[1]).req
    [] op = "unpauseToken" ->
         unpauseToken(args[1]).req
    [] op = "freezeToken" ->
         freezeToken(args[1]).req
    [] op = "unfreezeToken" ->
         unfreezeToken(args[1]).req
    [] op = "grantKyc" ->
         grantKyc(args[1], args[2]).req
    [] op = "revokeKyc" ->
         revokeKyc(args[1], args[2]).req
    [] op = "mintToken" ->
         mintToken(args[1]).req
    [] op = "wipeToken" ->
         wipeToken(args[1]).req
    [] op = "burnToken" ->
         burnToken(args[1]).req
    [] op = "mintNftToken" ->
         mintNftToken(args[1]).req
    [] op = "wipeNftToken" ->
         wipeNftToken(args[1]).req
    [] op = "burnNftToken" ->
         burnNftToken(args[1]).req
    [] op = "getTokenInfo" ->
         getTokenInfo(args[1]).req
    [] op = "getNftInfo" ->
         getNftInfo(args[1], args[2]).req
    [] op = "getRestfulTokenInfo" ->
         getRestfulTokenInfo(args[1], args[2]).req
    [] op = "getTokenBalances" ->
         getTokenBalances(args[1], args[2], args[3], args[4], args[5], args[6], args[7]).req
    [] op = "getTokenNfts" ->
         getTokenNfts(args[1], args[2], args[3], args[4], args[5]).req
    [] op = "getTokenNftBySerialNumber" ->
         getTokenNftBySerialNumber(args[1], args[2]).req
    [] op = "getTokenNftTransactionHistory" ->
         getTokenNftTransactionHistory(args[1], args[2], args[3], args[4], args[5]).req

\* C11: whatever the interleaving of the calls and the order in which the
\* transport settles them, every call has one request of its own, which is
\* the request its operation builds from its arguments alone; a resolved call
\* holds the body of its own response and a rejected call the error of its
\* own request.
C11_NoInterference ==
  \A c \in DOMAIN calls :
    /\ Cardinality(RequestsOf(c)) = 1
    /\ LET r == RequestOf(c)
           alone == RequestAlone(calls[c].op, calls[c].args)
       IN /\ r.verb = alone.verb
          /\ r.url = alone.url
          /\ r.data = alone.data
          /\ r.config = alone.config
          /\ calls[c].pc = "await" => calls[c].result = Absent
          /\ calls[c].pc = "resolved" =>
               r.state = "fulfilled" /\ calls[c].result = GetProp(r.outcome, "data")
          /\ calls[c].pc = "rejected" =>
               r.state = "rejected" /\ calls[c].result = r.outcome

\* getRestfulTransactionById and getInfo are in flight together; the second
\* has resolved with its own body while the first still waits, and later the
\* first is rejected with its own error
C11_Witness ==
  /\ Len(calls) = 2
  /\ calls[1].op = "getRestfulTransactionById"
  /\ calls[2].op = "getInfo"
  /\ requests[2].call = 2
  /\ requests[2].outcome =
       Obj("response", <<Prop("data", Obj("body", <<Prop("ok", Bool(TRUE))>>))>>)
  /\ calls[2].pc = "resolved"
  /\ calls[2].result = Obj("body", <<Prop("ok", Bool(TRUE))>>)
  /\ requests[1].state = "rejected"
  /\ calls[1].pc = "rejected"
  /\ calls[1].result = Err("network error")

(***************************************************************************)
(* C12  no operation changes local state                                   *)
(***************************************************************************)
\* C12: after any sequence of calls, resolved or rejected, the six group
\* fields of the facade hold the groups the constructor created, each with
\* its base path, transport reference and options object, and the facade's
\* own options object and transport reference and the module context are
\* those of the state right after construction.
C12_LocalStateUnchanged ==
  /\ nest = Bootstrapped
  /\ facade = [sdkOptions |-> Bootstrapped.sdkOptions, client |-> Bootstrapped.client]
  /\ groups = SmartNodeSdkService(Bootstrapped.sdkOptions, Bootstrapped.client)
  /\ \A g \in GroupNames :
       /\ groups[g].basePath = g
       /\ groups[g].client = Bootstrapped.client
       /\ groups[g].sdkOptions = Bootstrapped.sdkOptions

\* createAccount has resolved and deleteAccount has been rejected
C12_Witness ==
  /\ Len(calls) = 2
  /\ calls[1].op = "createAccount"
  /\ calls[1].pc = "resolved"
  /\ calls[2].op = "deleteAccount"
  /\ calls[2].pc = "rejected"
  /\ Len(errlog) = 1
  /\ groups["accounts"].basePath = "accounts"

(***************************************************************************)
(* C13  the facade creates the six groups                                  *)
(***************************************************************************)
\* the classes of the six endpoint groups
GroupClasses ==
  {"SmartNodeRestful", "ValidatorsRestful", "HcsHashgraphRestful",
   "AccountsHashgraphRestful", "TransactionsHashgraphRestful", "HtsHashgraphRestful"}

\* C13: once the facade is constructed, each of the six group classes has
\* been instantiated exactly once, every group holds the transport client and
\* the options object the facade was given, and the base paths of the six
\* groups are smart-node, validators, hcs, accounts, transactions and hts, one
\* each.
C13_SixGroupsOneClientOneOptions ==
  nest.phase = "ready" =>
    /\ \A cls \in GroupClasses :
         Cardinality({i \in DOMAIN nest.instances : nest.instances[i] = cls}) = 1
    /\ facade.sdkOptions = nest.sdkOptions
    /\ facade.client = nest.client
    /\ DOMAIN groups = GroupNames
    /\ \A g \in GroupNames :
         /\ groups[g].client = facade.client
         /\ groups[g].sdkOptions = facade.sdkOptions
    /\ \A g, h \in GroupNames : g # h => groups[g].basePath # groups[h].basePath
    /\ {groups[g].basePath : g \in GroupNames} =
         {"smart-node", "validators", "hcs", "accounts", "transactions", "hts"}

\* the facade has been constructed by the module context with the options
\* object of the first evaluation and the client of the second
C13_Witness ==
  /\ nest.phase = "ready"
  /\ facade = [sdkOptions |-> SdkOptions(1), client |-> ClientService(ClientOptions(2))]
  /\ groups["hts"] =
       [sdkOptions |-> SdkOptions(1), client |-> ClientService(ClientOptions(2)),
        basePath |-> "hts"]
  /\ groups["smart-node"].basePath = "smart-node"

(***************************************************************************)
(* C14  the three configuration patterns                                   *)
(***************************************************************************)
\* the options a caller who follows the documentation passes: one of the
\* three patterns with the imports its factory needs, and a factory function
\* that takes the ConfigService comes with inject: [ConfigService]
Documented(options) ==
  /\ GetProp(options, "imports") # Undefined
  /\ GetProp(options, "useFactory") = ConfigFactory =>
       GetProp(options, "inject") = Arr(<<ConfigService>>)

\* C14: whichever of the three documented patterns forRootAsync is called
\* with (an existing factory, a factory class, a factory function), the
\* module's initialisation raises no error.
C14_ThreePatternsSupported ==
  (nest.options # Absent /\ Documented(nest.options)) => nest.phase # "failed"

(***************************************************************************)
(* C15  the factory function receives the providers of inject              *)
(***************************************************************************)
\* C15: every call of options.useFactory, by the transport's module and by
\* the provider 'sdkOptions', is made with the instances of the providers
\* listed in options.inject.
C15_FactoryCalledWithInject ==
  \A i \in DOMAIN nest.evaluations :
    nest.evaluations[i].args = Injected(GetProp(nest.options, "inject"))

(***************************************************************************)
(* C16  the service of the test module                                     *)
(***************************************************************************)
\* C16: the testing module whose only provider is SmartNodeSdkService
\* compiles, and the service it yields is constructed.
C16_TestServiceDefined ==
  (nest.options = Absent /\ nest.phase # "idle") =>
    /\ nest.phase # "failed"
    /\ nest.phase = "ready" => facade # NotConstructed

(***************************************************************************)
(* C20  the configuration is created once                                  *)
(***************************************************************************)
\* C20: during one module initialisation the options factory is evaluated at
\* most once, and once the facade is constructed exactly once: the object
\* injected as 'sdkOptions' is the one whose client part configured the
\* transport.
C20_OptionsCreatedOnce ==
  /\ Len(nest.evaluations) <= 1
  /\ nest.phase = "ready" =>
       /\ Len(nest.evaluations) = 1
       /\ nest.clientConfig = GetProp(facade.sdkOptions, "client")

(***************************************************************************)
(* C17  the query parameter keys of the listing operations                 *)
(***************************************************************************)
\* the operations that send query parameters built from their arguments
PositionalQueryOps ==
  ListingOps \cup {"getTransactionById", "getRestfulTransactionById",
                   "getTransactionStateProof"}

\* the keys the specification lists
ListedKeys ==
  {"limit", "order", "timestamp", "token", "accountId", "serialNumber",
   "transactionType", "nonce", "scheduled"}

\* the keys the operations send besides
FurtherKeys ==
  {"transactions", "encoding", "sequenceNumber", "accountBalance", "accountPublicKey"}

\* C17 as stated: every query parameter key a listing or filtering operation
\* places on its request is one of limit, order, timestamp, token, accountId,
\* serialNumber, transactionType, nonce and scheduled.
C17_KeysAreListed ==
  \A c \in DOMAIN calls :
    calls[c].op \in PositionalQueryOps \cup FilterObjectOps =>
      Keys(QueryOf(RequestOf(c))) \subseteq ListedKeys

\* C17 amended: every query parameter key an operation with positional
\* filters places on its request is one of the listed keys or one of
\* transactions, encoding, sequenceNumber, accountBalance and accountPublicKey,
\* and each of these further keys is sent by the operation that declares it;
\* getTransactions and getMessages send the caller's filter object itself,
\* with whatever keys it has.
C17_KeysAreListedOrFurther ==
  \A c \in DOMAIN calls :
    LET q == QueryOf(RequestOf(c))
    IN /\ calls[c].op \in PositionalQueryOps =>
            Keys(q) \subseteq ListedKeys \cup FurtherKeys
       /\ calls[c].op = "getRestfulInfo" => "transactions" \in Keys(q)
       /\ calls[c].op = "getRestfulMessages" =>
            {"encoding", "sequenceNumber"} \subseteq Keys(q)
       /\ calls[c].op = "getTokenBalances" =>
            {"accountBalance", "accountPublicKey"} \subseteq Keys(q)
       /\ calls[c].op \in FilterObjectOps =>
            q = calls[c].args[Len(calls[c].args)]

\* getRestfulMessages has sent encoding = base64 and sequenceNumber = 7
C17_Witness ==
  \E c \in DOMAIN calls :
    /\ calls[c].op = "getRestfulMessages"
    /\ GetProp(QueryOf(RequestOf(c)), "encoding") = Str("base64")
    /\ GetProp(QueryOf(RequestOf(c)), "sequenceNumber") = Num(7)
    /\ RequestOf(c).url = "mirrors/hcs/topics/0.0.2000/messages"

(***************************************************************************)
(* C18  the failures an operation surfaces                                 *)
(***************************************************************************)
\* C18: a rejected call has issued a transport request, the transport
\* rejected that request, and the call's rejection value is the transport's
\* error; every error record holds an error the transport produced.
C18_OnlyTransportFailures ==
  /\ \A c \in DOMAIN calls :
       calls[c].pc = "rejected" =>
         /\ RequestsOf(c) # {}
         /\ \E i \in RequestsOf(c) :
              /\ requests[i].state = "rejected"
              /\ requests[i].outcome = calls[c].result
         /\ calls[c].result \in Errors
  /\ \A i \in DOMAIN errlog : errlog[i].error \in Errors

(***************************************************************************)
(* C19  nonce and scheduled are attached to the request                    *)
(***************************************************************************)
NonceScheduledOps ==
  {"getTransactionById", "getRestfulTransactionById", "getTransactionStateProof"}

\* C19: the request of getTransactionById, getRestfulTransactionById and
\* getTransactionStateProof carries a params object whose key nonce is
\* present exactly when the nonce argument is not undefined and whose key
\* scheduled is present exactly when the scheduled argument is not
\* undefined, each holding the string form of the argument: "0" for 0,
\* "false" for false.
C19_NonceScheduledAttached ==
  \A c \in DOMAIN calls :
    calls[c].op \in NonceScheduledOps =>
      LET nonce == calls[c].args[2]
          scheduled == calls[c].args[3]
          q == QueryOf(RequestOf(c))
      IN /\ RequestsOf(c) # {}
         /\ q # Absent
         /\ HasKey(q, "nonce") <=> nonce # Undefined
         /\ HasKey(q, "scheduled") <=> scheduled # Undefined
         /\ nonce # Undefined => GetProp(q, "nonce") = Str(ToStr(nonce))
         /\ scheduled # Undefined => GetProp(q, "scheduled") = Str(ToStr(scheduled))
         /\ nonce = Num(0) => GetProp(q, "nonce") = Str("0")
         /\ scheduled = Bool(FALSE) => GetProp(q, "scheduled") = Str("false")

\* getTransactionStateProof was called with nonce 0 and scheduled false, and
\* its request carries nonce = "0" and scheduled = "false"
C19_Witness ==
  \E c \in DOMAIN calls :
    /\ calls[c].op = "getTransactionStateProof"
    /\ calls[c].args[2] = Num(0)
    /\ calls[c].args[3] = Bool(FALSE)
    /\ RequestOf(c).url =
         "mirrors/transactions/0.0.1001-1700000000-000000001/stateproof"
    /\ QueryOf(RequestOf(c)) =
         SearchParams(<<Prop("nonce", Str("0")), Prop("scheduled", Str("false"))>>)

(***************************************************************************)
(* C21  path identifiers are interpolated literally                        *)
(***************************************************************************)
\* the pieces of a request path: a fixed piece, or the argument at a position
Lit(str) == [lit |-> str, arg |-> 0]

Arg(i) == [lit |-> "", arg |-> i]

\* the path of every operation that has a path identifier, by pieces
PathShape(op) ==
  CASE op = "readConsensusValidator" ->
         <<Lit("validators/consensus/"), Arg(1)>>
    [] op = "readTokenValidator" ->
         <<Lit("validators/tokens/"), Arg(1)>>
    [] op = "readAccountValidator" ->
         <<Lit("validators/accounts/"), Arg(1)>>
    [] op = "getInfo" ->
         <<Lit("accounts/"), Arg(1)>>
    [] op = "getKeys" ->
         <<Lit("accounts/"), Arg(1), Lit("/publicKey")>>
    [] op = "getQueryBalance" ->
         <<Lit("accounts/"), Arg(1), Lit("/balance")>>
    [] op = "deleteAccount" ->
         <<Lit("accounts/"), Arg(1)>>
    [] op = "updateAccount" ->
         <<Lit("accounts/"), Arg(1)>>
    [] op = "getRestfulInfo" ->
         <<Lit("mirrors/accounts/"), Arg(1)>>
    [] op = "getNftsForAccount" ->
         <<Lit("mirrors/accounts/"), Arg(1), Lit("/nfts")>>
    [] op = "getStakingRewardsForAccount" ->
         <<Lit("mirrors/accounts/"), Arg(1), Lit("/rewards")>>
    [] op = "getTokenRelationships" ->
         <<Lit("mirrors/accounts/"), Arg(1), Lit("/tokens")>>
    [] op = "getTransactionById" ->
         <<Lit("transactions/"), Arg(1)>>
    [] op = "getRestfulTransactionById" ->
         <<Lit("mirrors/transactions/"), Arg(1)>>
    [] op = "getTransactionStateProof" ->
         <<Lit("mirrors/transactions/"), Arg(1), Lit("/stateproof")>>
    [] op = "getScheduledTransaction" ->
         <<Lit("mirrors/transactions/schedules/"), Arg(1)>>
    [] op = "updateTopic" ->
         <<Lit("hcs/"), Arg(1)>>
    [] op = "deleteTopic" ->
         <<Lit("hcs/"), Arg(1)>>
    [] op = "getTopicInfo" ->
         <<Lit("hcs/"), Arg(1)>>
    [] op = "submitMessage" ->
         <<Lit("hcs/"), Arg(1), Lit("/message")>>
    [] op = "getMessages" ->
         <<Lit("hcs/"), Arg(1), Lit("/messages")>>
    [] op = "getRestfulMessages" ->
         <<Lit("mirrors/hcs/topics/"), Arg(1), Lit("/messages")>>
    [] op = "getMessageByIdAndSequenceNumber" ->
         <<Lit("mirrors/hcs/topics/"), Arg(1), Lit("/messages/"), Arg(2)>>
    [] op = "getMessageByTimestamp" ->
         <<Lit("mirrors/hcs/topics/messages/"), Arg(1)>>
    [] op = "updateToken" ->
         <<Lit("hts/update/"), Arg(1)>>
    [] op = "updateTokenFees" ->
         <<Lit("hts/update/"), Arg(1), Lit("/fees")>>
    [] op = "deleteToken" ->
         <<Lit("hts/delete/"), Arg(1)>>
    [] op = "pauseToken" ->
         <<Lit("hts/pause/"), Arg(1)>>
    [] op = "unpauseToken" ->
         <<Lit("hts/unpause/"), Arg(1)>>
    [] op = "freezeToken" ->
         <<Lit("hts/freeze/"), Arg(1)>>
    [] op = "unfreezeToken" ->
         <<Lit("hts/unfreeze/"), Arg(1)>>
    [] op = "grantKyc" ->
         <<Lit("hts/grant-kyc/"), Arg(1)>>
    [] op = "revokeKyc" ->
         <<Lit("hts/revoke-kyc/"), Arg(1)>>
    [] op = "getTokenInfo" ->
         <<Lit("hts/token/"), Arg(1)>>
    [] op = "getNftInfo" ->
         <<Lit("hts/nft/"), Arg(1), Lit("/"), Arg(2)>>
    [] op = "getRestfulTokenInfo" ->
         <<Lit("mirrors/hts/tokens/"), Arg(1)>>
    [] op = "getTokenBalances" ->
         <<Lit("mirrors/hts/tokens/"), Arg(1), Lit("/balances")>>
    [] op = "getTokenNfts" ->
         <<Lit("mirrors/hts/tokens/"), Arg(1), Lit("/nfts")>>
    [] op = "getTokenNftBySerialNumber" ->
         <<Lit("mirrors/hts/tokens/"), Arg(1), Lit("/nfts/"), Arg(2)>>
    [] op = "getTokenNftTransactionHistory" ->
         <<Lit("mirrors/hts/tokens/"), Arg(1), Lit("/nfts/transactions")>>
    [] OTHER -> <<>>

\* the pieces put together: every fixed piece as it is, every argument in its
\* string form
RECURSIVE Interpolated(_, _)
Interpolated(shape, args) ==
  IF shape = <<>>
    THEN ""
    ELSE (IF Head(shape).arg = 0 THEN Head(shape).lit ELSE ToStr(args[Head(shape).arg]))
         \o Interpolated(Tail(shape), args)

\* C21: the path of the request of every operation with a path identifier is
\* its fixed pieces and the string forms of its identifiers concatenated,
\* with nothing encoded, trimmed or rejected, also for an empty identifier
\* and for one that contains / ? or #.
C21_PathInterpolatedLiterally ==
  \A c \in DOMAIN calls :
    PathShape(calls[c].op) # <<>> =>
      /\ RequestsOf(c) # {}
      /\ RequestOf(c).url = Interpolated(PathShape(calls[c].op), calls[c].args)

\* getKeys("a/b?c#d") has requested accounts/a/b?c#d/publicKey
C21_Witness ==
  \E c \in DOMAIN calls :
    /\ calls[c].op = "getKeys"
    /\ calls[c].args = <<Str("a/b?c#d")>>
    /\ RequestOf(c).url = "accounts/a/b?c#d/publicKey"
    /\ calls[c].pc = "resolved"

(***************************************************************************)
(* C22  a call settles when, and only when, its request has settled        *)
(***************************************************************************)
\* C22: a call is settled only if the transport has settled its request, so a
\* call whose request stays pending stays pending; and once the transport
\* has settled the request, the call does settle.
C22_SettlesWithItsRequest ==
  /\ [](\A c \in DOMAIN calls :
         /\ Settled(c) => RequestOf(c).state # "pending"
         /\ RequestOf(c).state = "pending" => calls[c].pc = "await")
  /\ (\E c \in DOMAIN calls : RequestOf(c).state # "pending")
       ~> (\E c \in DOMAIN calls : RequestOf(c).state # "pending" /\ Settled(c))

\* getTopicInfo waited for its request, the transport fulfilled it, and the
\* call has resolved
C22_Witness ==
  \E c \in DOMAIN calls :
    /\ calls[c].op = "getTopicInfo"
    /\ RequestOf(c).url = "hcs/0.0.2000"
    /\ RequestOf(c).state = "fulfilled"
    /\ calls[c].pc = "resolved"

(***************************************************************************)
(* C23  forRootAsync without the optional imports                          *)
(***************************************************************************)
\* the tokens a list of providers or exports names: a class is its own
\* token, a provider object names its token under provide
TokensOf(list) ==
  {IF list.e[i].t = "class" THEN list.e[i].s ELSE GetProp(list.e[i], "provide").s : i \in DOMAIN list.e}

\* C23: after forRootAsync was called with options that omit imports, it has
\* resolved to a module definition that is global, provides 'sdkOptions' and
\* SmartNodeSdkService, and exports SmartNodeSdkService only.
C23_DefinitionWithoutImports ==
  (nest.options # Absent /\ GetProp(nest.options, "imports") = Undefined) =>
    /\ nest.phase # "failed"
    /\ nest.definition # Absent
    /\ GetProp(nest.definition, "global") = Bool(TRUE)
    /\ TokensOf(GetProp(nest.definition, "providers")) = {"sdkOptions", "SmartNodeSdkService"}
    /\ TokensOf(GetProp(nest.definition, "exports")) = {"SmartNodeSdkService"}

\* the part of the statement that does not depend on imports: whenever
\* forRootAsync resolves, the definition is global, provides 'sdkOptions' and
\* SmartNodeSdkService, and exports SmartNodeSdkService only
C23_DefinitionShape ==
  nest.definition # Absent =>
    /\ GetProp(nest.options, "imports") # Undefined
    /\ GetProp(nest.definition, "global") = Bool(TRUE)
    /\ TokensOf(GetProp(nest.definition, "providers")) = {"sdkOptions", "SmartNodeSdkService"}
    /\ TokensOf(GetProp(nest.definition, "exports")) = {"SmartNodeSdkService"}

\* forRootAsync was called without imports and has rejected
C23_Rejected ==
  /\ nest.options # Absent
  /\ GetProp(nest.options, "imports") = Undefined
  /\ GetProp(nest.options, "useFactory") = ConstantFactory
  /\ nest.phase = "failed"
  /\ nest.definition = Absent

(***************************************************************************)
(* C24  telling the operation from the verb and the path                   *)
(***************************************************************************)
\* the verb and path operation o requests, with the identifiers ids that
\* its path interpolates
Route(o, ids) == [op |-> o.op, ids |-> ids, verb |-> o.req.verb, url |-> o.req.url]

\* the routes of all operations, for every choice of the identifiers of their
\* paths (the other arguments do not reach the path)
Routes ==
  UNION {
    {Route(getIdentifier, <<>>)},
    {Route(getStatus, <<>>)},
    {Route(getNetwork, <<>>)},
    {Route(getUtilities, <<>>)},
    {Route(addConsensusValidator(Payload), <<>>)},
    {Route(readConsensusValidator(timestamp), <<timestamp>>) : timestamp \in PathTimestamps},
    {Route(addTokenValidator(Payload), <<>>)},
    {Route(readTokenValidator(timestamp), <<timestamp>>) : timestamp \in PathTimestamps},
    {Route(addAccountValidator(Payload), <<>>)},
    {Route(readAccountValidator(timestamp), <<timestamp>>) : timestamp \in PathTimestamps},
    {Route(getInfo(accountId), <<accountId>>) : accountId \in AccountIds},
    {Route(getKeys(accountId), <<accountId>>) : accountId \in AccountIds},
    {Route(getQueryBalance(accountId), <<accountId>>) : accountId \in AccountIds},
    {Route(createAccount(Payload), <<>>)},
    {Route(deleteAccount(accountId, Payload), <<accountId>>) : accountId \in AccountIds},
    {Route(updateAccount(accountId, Payload), <<accountId>>) : accountId \in AccountIds},
    {Route(transferHbar(Payload), <<>>)},
    {Route(transferToken(Payload), <<>>)},
    {Route(transferNftToken(Payload), <<>>)},
    {Route(atomicSwap(Payload), <<>>)},
    {Route(approveAllowance(Payload), <<>>)},
    {Route(deleteAllowance(Payload), <<>>)},
    {Route(getRestfulInfo(accountId, Undefined, Undefined, Undefined, Undefined, Undefined), <<accountId>>) : accountId \in AccountIds},
    {Route(getNftsForAccount(accountId), <<accountId>>) : accountId \in AccountIds},
    {Route(getStakingRewardsForAccount(accountId, Undefined, Undefined, Undefined), <<accountId>>) : accountId \in AccountIds},
    {Route(getTokenRelationships(accountId, Undefined, Undefined, Undefined), <<accountId>>) : accountId \in AccountIds},
    {Route(getTransactionById(transactionId, Num(0), Undefined), <<transactionId>>) : transactionId \in TransactionIds},
    {Route(getTransactions(EmptyFilter), <<>>)},
    {Route(getRestfulTransactionById(transactionId, Num(0), Undefined), <<transactionId>>) : transactionId \in TransactionIds},
    {Route(getTransactionStateProof(transactionId, Num(0), Undefined), <<transactionId>>) : transactionId \in TransactionIds},
    {Route(getScheduledTransaction(scheduleId), <<scheduleId>>) : scheduleId \in ScheduleIds},
    {Route(createTopic(Payload), <<>>)},
    {Route(updateTopic(topicId, Payload), <<topicId>>) : topicId \in TopicIds},
    {Route(deleteTopic(topicId, Payload), <<topicId>>) : topicId \in TopicIds},
    {Route(getTopicInfo(topicId), <<topicId>>) : topicId \in TopicIds},
    {Route(submitMessage(topicId, Payload), <<topicId>>) : topicId \in TopicIds},
    {Route(getMessages(topicId, EmptyFilter), <<topicId>>) : topicId \in TopicIds},
    {Route(getRestfulMessages(topicId, Undefined, Undefined, Undefined, Undefined, Undefined), <<topicId>>) : topicId \in TopicIds},
    {Route(getMessageByIdAndSequenceNumber(topicId, sequenceNumber), <<topicId, sequenceNumber>>) : topicId \in TopicIds, sequenceNumber \in SequenceNumbers},
    {Route(getMessageByTimestamp(timestamp), <<timestamp>>) : timestamp \in PathTimestamps},
    {Route(createToken(Payload), <<>>)},
    {Route(updateToken(tokenId, Payload), <<tokenId>>) : tokenId \in TokenIds},
    {Route(updateTokenFees(tokenId, Payload), <<tokenId>>) : tokenId \in TokenIds},
    {Route(deleteToken(tokenId), <<tokenId>>) : tokenId \in TokenIds},
    {Route(pauseToken(tokenId), <<tokenId>>) : tokenId \in TokenIds},
    {Route(unpauseToken(tokenId), <<tokenId>>) : tokenId \in TokenIds},
    {Route(freezeToken(tokenId), <<tokenId>>) : tokenId \in TokenIds},
    {Route(unfreezeToken(tokenId), <<tokenId>>) : tokenId \in TokenIds},
    {Route(grantKyc(tokenId, Payload), <<tokenId>>) : tokenId \in TokenIds},
    {Route(revokeKyc(tokenId, Payload), <<tokenId>>) : tokenId \in TokenIds},
    {Route(mintToken(Payload), <<>>)},
    {Route(wipeToken(Payload), <<>>)},
    {Route(burnToken(Payload), <<>>)},
    {Route(mintNftToken(Payload), <<>>)},
    {Route(wipeNftToken(Payload), <<>>)},
    {Route(burnNftToken(Payload), <<>>)},
    {Route(getTokenInfo(tokenId), <<tokenId>>) : tokenId \in TokenIds},
    {Route(getNftInfo(tokenId, serialNumber), <<tokenId, serialNumber>>) : tokenId \in TokenIds, serialNumber \in SerialNumbers},
    {Route(getRestfulTokenInfo(tokenId, Undefined), <<tokenId>>) : tokenId \in TokenIds},
    {Route(getTokenBalances(tokenId, Undefined, Undefined, Undefined, Undefined, Undefined, Undefined), <<tokenId>>) : tokenId \in TokenIds},
    {Route(getTokenNfts(tokenId, Undefined, Undefined, Undefined, Undefined), <<tokenId>>) : tokenId \in TokenIds},
    {Route(getTokenNftBySerialNumber(tokenId, serialNumber), <<tokenId, serialNumber>>) : tokenId \in TokenIds, serialNumber \in SerialNumbers},
    {Route(getTokenNftTransactionHistory(tokenId, Num(1), Undefined, Undefined, Undefined), <<tokenId>>) : tokenId \in TokenIds} }

Contains(str, ch) == \E i \in 1..Len(str) : SubSeq(str, i, i) = ch

\* no identifier of ids contains the character ch
Without(ids, ch) == \A i \in DOMAIN ids : ids[i].t = "string" => ~Contains(ids[i].s, ch)

\* the identifiers the path of call c interpolates
PathIds(c) ==
  LET shape == PathShape(calls[c].op)
  IN [i \in {j \in DOMAIN shape : shape[j].arg # 0} |-> calls[c].args[shape[i].arg]]

\* the fixed words of the paths at a position where another operation with
\* the same verb and as many segments has an identifier:
\*   mirrors/hcs/topics/{topicId}/messages  mirrors/hcs/topics/messages/{timestamp}
\*   mirrors/transactions/{transactionId}/stateproof
\*   mirrors/transactions/schedules/{scheduleId}
PathWords == {"messages", "schedules", "stateproof"}

\* an identifier of ids is one of the fixed words
Ambiguous(ids) == \E i \in DOMAIN ids : ids[i].t = "string" /\ ids[i].s \in PathWords

\* C24 as stated: when the identifiers contain no "/", no other operation
\* requests the verb and path of a call's request.
C24_VerbAndPathTellOperation ==
  \A c \in DOMAIN calls : \A r \in Routes :
    (r.op # calls[c].op /\ Without(PathIds(c), "/") /\ Without(r.ids, "/")) =>
      ~(r.verb = RequestOf(c).verb /\ r.url = RequestOf(c).url)

\* C24: when the identifiers contain no "/" and are none of the fixed words
\* messages, schedules and stateproof, no other operation requests the verb
\* and path of a call's request.
C24_VerbAndPathTellOperationOfIds ==
  \A c \in DOMAIN calls : \A r \in Routes :
    (/\ r.op # calls[c].op
     /\ Without(PathIds(c), "/") /\ Without(r.ids, "/")
     /\ ~Ambiguous(PathIds(c)) /\ ~Ambiguous(r.ids)) =>
      ~(r.verb = RequestOf(c).verb /\ r.url = RequestOf(c).url)

\* getRestfulMessages("0.0.2000") has requested a path that no call of
\* getMessageByTimestamp requests
C24_Witness ==
  \E c \in DOMAIN calls :
    /\ calls[c].op = "getRestfulMessages"
    /\ calls[c].args[1] = Str("0.0.2000")
    /\ RequestOf(c).verb = "GET"
    /\ RequestOf(c).url = "mirrors/hcs/topics/0.0.2000/messages"
    /\ \E r \in Routes : r.op = "getMessageByTimestamp" /\ r.verb = "GET"
    /\ \A r \in Routes : r.op = "getMessageByTimestamp" => r.url # RequestOf(c).url
    /\ calls[c].pc = "resolved"

(***************************************************************************)
(* C25  the filter object is forwarded as it is                            *)
(***************************************************************************)
\* the filter object call c was given: the last argument
FilterOf(c) == calls[c].args[Len(calls[c].args)]

\* C25: the request of getMessages and of getTransactions carries, as its
\* only option, params: the very filter object of the caller, which has the
\* keys and values it was given.
C25_FilterForwardedAsGiven ==
  \A c \in DOMAIN calls :
    calls[c].op \in FilterObjectOps =>
      /\ RequestsOf(c) # {}
      /\ RequestOf(c).data = Absent
      /\ Keys(RequestOf(c).config) = {"params"}
      /\ QueryOf(RequestOf(c)) = FilterOf(c)
      /\ FilterOf(c) \in TransactionFilters

\* getTransactions({ result: 'success', type: 'credit' }) has sent that
\* object as params
C25_Witness ==
  \E c \in DOMAIN calls :
    /\ calls[c].op = "getTransactions"
    /\ Keys(FilterOf(c)) = {"result", "type"}
    /\ QueryOf(RequestOf(c)) = FilterOf(c)
    /\ calls[c].pc = "resolved"

(***************************************************************************)
(* C26  pause, unpause, freeze, unfreeze and delete of a token             *)
(***************************************************************************)
\* the token operations that take the token identifier alone, with the word
\* of their path
TokenSwitches ==
  [pauseToken |-> "pause", unpauseToken |-> "unpause", freezeToken |-> "freeze", unfreezeToken |-> "unfreeze", deleteToken |-> "delete"]

\* C26: pauseToken, unpauseToken, freezeToken and unfreezeToken POST to
\* hts/pause|unpause|freeze|unfreeze/{tokenId}, deleteToken sends DELETE to
\* hts/delete/{tokenId}, and the transport is given the path alone: no body
\* and no options.
C26_TokenSwitchesSendPathOnly ==
  \A c \in DOMAIN calls :
    calls[c].op \in DOMAIN TokenSwitches =>
      /\ RequestsOf(c) # {}
      /\ RequestOf(c).verb = (IF calls[c].op = "deleteToken" THEN "DELETE" ELSE "POST")
      /\ RequestOf(c).url = "hts/" \o TokenSwitches[calls[c].op] \o "/" \o calls[c].args[1].s
      /\ RequestOf(c).data = Absent
      /\ RequestOf(c).config = Absent

\* deleteToken("0.0.500") has sent DELETE hts/delete/0.0.500 and resolved
C26_Witness ==
  \E c \in DOMAIN calls :
    /\ calls[c].op = "deleteToken"
    /\ calls[c].args = <<Str("0.0.500")>>
    /\ RequestOf(c).verb = "DELETE"
    /\ RequestOf(c).url = "hts/delete/0.0.500"
    /\ calls[c].pc = "resolved"

(***************************************************************************)
(* C27  the validators group                                               *)
(***************************************************************************)
\* the validator operations with the word of their path
ValidatorAdds ==
  [addConsensusValidator |-> "consensus", addTokenValidator |-> "tokens", addAccountValidator |-> "accounts"]

ValidatorReads ==
  [readConsensusValidator |-> "consensus", readTokenValidator |-> "tokens", readAccountValidator |-> "accounts"]

\* C27: adding a validator POSTs the parameters as the body to validators/t,
\* reading one GETs validators/t/{timestamp} with no query and no body, for t
\* one of consensus, tokens, accounts; none of the paths is under mirrors/.
C27_ValidatorsRequests ==
  \A c \in DOMAIN calls :
    /\ calls[c].op \in DOMAIN ValidatorAdds =>
         /\ RequestsOf(c) # {}
         /\ RequestOf(c).verb = "POST"
         /\ RequestOf(c).url = "validators/" \o ValidatorAdds[calls[c].op]
         /\ RequestOf(c).data = calls[c].args[1]
         /\ RequestOf(c).config = Absent
    /\ calls[c].op \in DOMAIN ValidatorReads =>
         /\ RequestsOf(c) # {}
         /\ RequestOf(c).verb = "GET"
         /\ RequestOf(c).url = "validators/" \o ValidatorReads[calls[c].op] \o "/" \o calls[c].args[1].s
         /\ RequestOf(c).data = Absent
         /\ RequestOf(c).config = Absent
         /\ ~StartsWith(RequestOf(c).url, "mirrors/")

\* readTokenValidator("1700000000.000000001") has sent its GET and resolved
C27_Witness ==
  \E c \in DOMAIN calls :
    /\ calls[c].op = "readTokenValidator"
    /\ RequestOf(c).verb = "GET"
    /\ RequestOf(c).url = "validators/tokens/1700000000.000000001"
    /\ calls[c].pc = "resolved"

(***************************************************************************)
(* C28  the node-status group                                              *)
(***************************************************************************)
\* the node-status operations with the word of their path
NodeStatusOps ==
  [getIdentifier |-> "identifier", getStatus |-> "status", getNetwork |-> "network", getUtilities |-> "utilities"]

\* C28: getIdentifier, getStatus, getNetwork and getUtilities take no
\* arguments and GET smart-node/identifier|status|network|utilities with no
\* query and no body; two calls of the same operation send the same request.
C28_NodeStatusRequests ==
  \A c \in DOMAIN calls :
    calls[c].op \in DOMAIN NodeStatusOps =>
      /\ calls[c].args = <<>>
      /\ RequestsOf(c) # {}
      /\ RequestOf(c).verb = "GET"
      /\ RequestOf(c).url = "smart-node/" \o NodeStatusOps[calls[c].op]
      /\ RequestOf(c).data = Absent
      /\ RequestOf(c).config = Absent
      /\ \A d \in DOMAIN calls :
           calls[d].op = calls[c].op =>
             /\ RequestOf(d).verb = RequestOf(c).verb
             /\ RequestOf(d).url = RequestOf(c).url
             /\ RequestOf(d).data = RequestOf(c).data
             /\ RequestOf(d).config = RequestOf(c).config

\* getStatus was called twice, the first call has resolved, and both have
\* sent GET smart-node/status
C28_Witness ==
  \E c, d \in DOMAIN calls :
    /\ c < d
    /\ calls[c].op = "getStatus"
    /\ calls[d].op = "getStatus"
    /\ RequestOf(c).url = "smart-node/status"
    /\ RequestOf(d).url = "smart-node/status"
    /\ calls[c].pc = "resolved"

====
